---- MODULE Spec2Model ----
(***************************************************************************)
(* Verification model of the datai backend:                                *)
(*   - the SQL safety validators (app/utils/validators.py and the regex    *)
(*     validator of app/agents/tools/sql_tools.py),                        *)
(*   - the SQL pipeline of the agent workflow (app/agents/sql_agent.py,    *)
(*     app/agents/graph.py),                                               *)
(*   - the chat entry point (app/services/chat_service.py),                *)
(*   - the schema caches, the credential vault and the connection manager, *)
(*   - the query execution tools and SQLTools._is_safe_sql,                *)
(*   - the intent router (app/agents/supervisor_agent.py),                 *)
(*   - concurrent visualizations (app/agents/dashboard_agent.py),          *)
(*   - application startup (app/main.py) and the connection profiles of    *)
(*     the database API (app/api/database.py).                             *)
(*                                                                         *)
(* SQL text is a sequence of lexemes ("pieces"): a piece is a maximal run  *)
(* of word characters (a keyword, an identifier, a number), one blank, or  *)
(* one punctuation mark.  Two word pieces are never adjacent, so a regex   *)
(* word boundary \b falls exactly on the border of a word piece.           *)
(***************************************************************************)
EXTENDS Integers, Sequences, FiniteSets, TLC

VARIABLES
    (* validator harness *)
    sql,             \* the SQL text under validation
    v_sql,           \* verdict of SQLValidator.validate_sql, or Pending
    v_query,         \* verdict of validate_query, or Pending
    v_safe,          \* verdict of SQLTools._is_safe_sql, or Pending
    (* workflow: AgentState and the graph position *)
    node,            \* graph node about to run ("END" once finished)
    classified,      \* the Language Service's answer to the classification prompt
    st,              \* the AgentState record
    max_retries,     \* settings.AGENT_MAX_RETRIES
    events,          \* calls made by the latest run of the sql stage, in order
    candidates,      \* Language Service calls that produced a candidate query
    executions,      \* queries handed to the database so far
    stub_invalid,    \* every candidate so far was invalid and nothing raised
    sql_runs,        \* runs of the sql stage
    stages,          \* stage executions
    terminals,       \* runs of supervisor_respond / aggregate
    (* chat entry point *)
    chat,            \* outcome of ChatService.process_chat_query
    (* schema cache *)
    schema,          \* the two schema caches, the clock and the latest lookup
    (* credential vault *)
    vault,           \* one password on its way through encrypt and decrypt
    (* connection manager *)
    pool,            \* DBConnectionManager._connections, its callers and their output
    (* query execution tools *)
    exec,            \* the configured row cap, a result set and the latest execution
    (* intent router *)
    router,          \* the decision cache of the latest SupervisorAgent, and the routings so far
    (* dashboard agents *)
    dash,            \* the DashboardAgent objects of the process and the requests using them
    (* application startup *)
    boot,            \* lifespan up to its yield, and the schema warm task
    (* connection profiles *)
    reg              \* one target's profile row, its pooled engines and its cached schema

vars == <<sql, v_sql, v_query, v_safe, node, classified, st, max_retries, events, candidates,
          executions, stub_invalid, sql_runs, stages, terminals, chat, schema, vault, pool, exec, router, dash, boot, reg>>

valVars  == <<sql, v_sql, v_query, v_safe>>
flowVars == <<node, classified, st, max_retries, events, candidates, executions,
              stub_invalid, sql_runs, stages, terminals>>
svcVars  == <<schema, vault, pool, exec, router, dash, boot, reg>>

----------------------------------------------------------------------------
(* Bounds *)

MaxLen == 3          \* longest enumerated SQL text, in pieces
MaxBudget == 2       \* largest AGENT_MAX_RETRIES explored
MaxTicks == 3        \* clock steps of half a time-to-live each
MaxLookups == 3      \* schema lookups per run
MaxPassword == 3     \* characters of a password
MaxThreads == 2      \* threads calling the connection manager
MaxCalls == 2        \* calls of the connection manager per run
MaxCap == 2          \* largest row cap configured below the default
MaxRows == 3         \* rows of the small result sets
MaxRequests == 2     \* chat requests routed per run
MaxInFlight == 2     \* chat requests visualizing at the same time
MaxTargets == 3      \* active connections the warm pass may find
MaxUpdates == 2      \* updates of a connection profile per run
MaxUses == 3         \* uses of a connection profile per run

----------------------------------------------------------------------------
(* Lexemes *)

DANGEROUS_KEYWORDS ==
    {"DROP", "DELETE", "TRUNCATE", "ALTER", "CREATE", "INSERT", "UPDATE",
     "GRANT", "REVOKE", "EXEC", "EXECUTE", "CALL", "MERGE", "REPLACE"}

ALLOWED_DML == {"SELECT", "WITH"}

\* word pieces written in lower or mixed case, and identifiers
CasedWords == {"select", "drop", "Grant", "replace"}
IdentWords == {"users", "created_at", "xp_cmd"}
OtherWords ==
    {"SELECT", "WITH", "OR", "FROM", "WHERE", "TABLE", "JOIN", "ON", "UNION",
     "AS", "id", "1"}

Words == DANGEROUS_KEYWORDS \cup CasedWords \cup IdentWords \cup OtherWords
Marks == {" ", ";", "(", ")", "'", "=", "*", "--", "/*", "*/"}

\* the pieces texts are enumerated over exhaustively
Alphabet ==
    {"SELECT", "WITH", "DROP", "drop", "users", "1",
     " ", ";", "(", ")", "'", "--", "/*"}

IsWord(p) == p \in Words

\* str.upper() / re.IGNORECASE on one piece
Upper(p) ==
    CASE p = "select"     -> "SELECT"
      [] p = "drop"       -> "DROP"
      [] p = "Grant"      -> "GRANT"
      [] p = "replace"    -> "REPLACE"
      [] p = "users"      -> "USERS"
      [] p = "created_at" -> "CREATED_AT"
      [] p = "xp_cmd"     -> "XP_CMD"
      [] p = "id"         -> "ID"
      [] OTHER            -> p

UpperSeq(s) == [i \in 1..Len(s) |-> Upper(s[i])]

\* a text is well formed when no two word pieces touch
WellFormed(s) == \A i \in 1..(Len(s) - 1) : ~(IsWord(s[i]) /\ IsWord(s[i + 1]))

RECURSIVE Texts(_)
Texts(n) ==
    IF n = 0 THEN {<<>>}
    ELSE LET S == Texts(n - 1)
         IN  S \cup {Append(s, p) : s \in {x \in S : Len(x) = n - 1}, p \in Alphabet}

\* texts of the validator test-suite and of the specification's scenarios
Samples ==
    { <<"SELECT", " ", "*", " ", "FROM", " ", "users", " ", "WHERE", " ", "id",
        " ", "=", " ", "1">>,
      <<"SELECT", " ", "*", " ", "FROM", " ", "users", " ", "WHERE", " ", "id",
        " ", "=", " ", "1", " ", "OR", " ", "'", "1", "'", "=", "'", "1", "'">>,
      <<"SELECT", " ", "*", " ", "FROM", " ", "users", " ", "WHERE", " ", "id",
        " ", "=", " ", "'", "'", " ", "OR", " ", "'", "1", "'", "=", "'", "1", "'">>,
      <<"SELECT", " ", "*", " ", "FROM", " ", "users", ";", " ", "DROP", " ",
        "TABLE", " ", "users">>,
      <<"DELETE", " ", "FROM", " ", "users", " ", "WHERE", " ", "id", "=", "1">> }

\* every denylisted keyword, in each case variant, standing as a whole word
KeywordTexts ==
    UNION { { <<k>>, <<"SELECT", " ", k>>, <<"SELECT", "(", k, ")">>,
              <<"SELECT", " ", "1", ";", k, " ", "users">> } :
            k \in DANGEROUS_KEYWORDS \cup CasedWords }

\* texts made of more than one statement
StatementTexts ==
    { <<"SELECT", " ", "1", ";", " ", "SELECT", " ", "1">>,
      <<"SELECT", " ", "1", ";", " ", "users">>,
      <<"SELECT", " ", "1", ";", "SELECT", " ", "1", ";">>,
      <<"SELECT", " ", "1", ";">>,
      <<"users", "(", "1", ")">>,
      <<" ", "users", " ", "created_at">>,
      <<"WITH", " ", "users", " ", "SELECT", " ", "1">>,
      <<"SELECT", " ", "*", " ", "FROM", " ", "users", " ", "WHERE", " ", "id",
        " ", "=", " ", "1", ";", " ", "--", " ", "DROP", " ", "TABLE", " ", "users">> }

\* read-only queries: a join, a union, a parenthesised select list, a column
\* whose name holds a keyword, and a common table expression with and
\* without leading whitespace
SelectTexts ==
    { <<"SELECT", " ", "*", " ", "FROM", " ", "users", " ", "JOIN", " ", "users",
        " ", "ON", " ", "id", " ", "=", " ", "id">>,
      <<"SELECT", " ", "id", " ", "FROM", " ", "users", " ", "UNION", " ",
        "SELECT", " ", "id", " ", "FROM", " ", "users">>,
      <<"SELECT", "(", "1", ")">>,
      <<"SELECT", "(", "id", ")", " ", "FROM", " ", "users">>,
      <<"SELECT", " ", "created_at", " ", "FROM", " ", "users">>,
      <<"WITH", " ", "users", " ", "AS", " ", "(", "SELECT", " ", "1", ")", " ",
        "SELECT", " ", "*", " ", "FROM", " ", "users">>,
      <<" ", "WITH", " ", "users", " ", "AS", " ", "(", "SELECT", " ", "1", ")",
        " ", "SELECT", " ", "*", " ", "FROM", " ", "users", " ">> }

\* single statements that hold one or two denylisted keywords
WriteTexts ==
    { <<"UPDATE", " ", "users", " ", "WHERE", " ", "id", " ", "=", " ", "1">>,
      <<"DELETE", " ", "FROM", " ", "users", " ", "WHERE", " ", "id", " ", "=",
        " ", "(", "SELECT", " ", "1", " ", "FROM", " ", "drop", ")">>,
      <<"SELECT", " ", "1", " ", "FROM", " ", "INSERT", " ", "JOIN", " ", "Grant">> }

Inputs ==
    {s \in Texts(MaxLen) : WellFormed(s)} \cup Samples \cup KeywordTexts
        \cup StatementTexts \cup SelectTexts \cup WriteTexts

----------------------------------------------------------------------------
(* str helpers *)

RECURSIVE LStrip(_)
LStrip(s) == IF s # <<>> /\ Head(s) = " " THEN LStrip(Tail(s)) ELSE s

RECURSIVE RStrip(_, _)
RStrip(s, c) ==
    IF s # <<>> /\ s[Len(s)] = c THEN RStrip(SubSeq(s, 1, Len(s) - 1), c) ELSE s

Strip(s) == RStrip(LStrip(s), " ")

Contains(s, p) == \E i \in 1..Len(s) : s[i] = p

Count(s, p) == Cardinality({i \in 1..Len(s) : s[i] = p})

\* re.search of a pattern given as a sequence of elements: "\\s*", "\\s+",
\* or a literal piece compared case-insensitively
RECURSIVE MatchAt(_, _, _, _)
MatchAt(s, i, pat, j) ==
    IF j > Len(pat) THEN TRUE
    ELSE IF pat[j] = "\\s*"
         THEN MatchAt(s, i, pat, j + 1)
              \/ (i <= Len(s) /\ s[i] = " " /\ MatchAt(s, i + 1, pat, j))
    ELSE IF pat[j] = "\\s+"
         THEN i <= Len(s) /\ s[i] = " "
              /\ (MatchAt(s, i + 1, pat, j) \/ MatchAt(s, i + 1, pat, j + 1))
    ELSE i <= Len(s) /\ Upper(s[i]) = pat[j] /\ MatchAt(s, i + 1, pat, j + 1)

Search(s, pat) == \E i \in 1..Len(s) : MatchAt(s, i, pat, 1)

----------------------------------------------------------------------------
(* sqlparse, as far as the validator reads it: the lexer's token types,    *)
(* the statement splitter and the grouping of a statement's first token    *)

SqlparseDML == {"SELECT", "INSERT", "DELETE", "UPDATE", "REPLACE", "MERGE"}
SqlparseDDL == {"DROP", "CREATE", "ALTER"}
SqlparseCTE == {"WITH"}
SqlparseKeyword ==
    {"TRUNCATE", "GRANT", "REVOKE", "EXEC", "EXECUTE", "CALL", "OR", "FROM",
     "WHERE", "TABLE", "JOIN", "ON", "UNION", "AS"}

\* first index after i holding piece p, or 0
NextAt(s, i, p) ==
    LET J == {j \in (i + 1)..Len(s) : s[j] = p}
    IN  IF J = {} THEN 0 ELSE CHOOSE j \in J : \A k \in J : j <= k

\* token type of the word piece at i; a word directly before "(" is a Name
WordType(s, i) ==
    LET u == Upper(s[i])
    IN  IF u = "1" THEN "Number"
        ELSE IF i < Len(s) /\ s[i + 1] = "(" THEN "Name"
        ELSE IF u \in SqlparseDML THEN "DML"
        ELSE IF u \in SqlparseDDL THEN "DDL"
        ELSE IF u \in SqlparseCTE THEN "CTE"
        ELSE IF u \in SqlparseKeyword THEN "Keyword"
        ELSE "Name"

\* sqlparse.lexer: the token stream of a text, each token [c: type, u: value]
RECURSIVE LexFrom(_, _)
LexFrom(s, i) ==
    IF i > Len(s) THEN <<>>
    ELSE LET p == s[i]
         IN  IF IsWord(p)
                THEN <<[c |-> WordType(s, i), u |-> Upper(p)]>> \o LexFrom(s, i + 1)
             ELSE IF p = "'"
                THEN IF NextAt(s, i, "'") # 0
                        THEN <<[c |-> "String", u |-> "'"]>>
                                 \o LexFrom(s, NextAt(s, i, "'") + 1)
                        ELSE <<[c |-> "Error", u |-> "'"]>> \o LexFrom(s, i + 1)
             ELSE IF p = "--"
                THEN <<[c |-> "Comment", u |-> "--"]>>
             ELSE IF p = "/*" /\ NextAt(s, i, "*/") # 0
                THEN <<[c |-> "Comment", u |-> "/*"]>>
                         \o LexFrom(s, NextAt(s, i, "*/") + 1)
             ELSE IF p = " "
                THEN <<[c |-> "Whitespace", u |-> " "]>> \o LexFrom(s, i + 1)
             ELSE IF p \in {";", "(", ")"}
                THEN <<[c |-> "Punctuation", u |-> p]>> \o LexFrom(s, i + 1)
             ELSE IF p = "="
                THEN <<[c |-> "Comparison", u |-> p]>> \o LexFrom(s, i + 1)
             ELSE <<[c |-> "Operator", u |-> p]>> \o LexFrom(s, i + 1)

Lex(s) == LexFrom(s, 1)

AllWhitespace(ts) == \A i \in 1..Len(ts) : ts[i].c = "Whitespace"

\* StatementSplitter: a ";" at parenthesis level <= 0 ends a statement; a
\* pending statement of whitespace alone is not yielded
RECURSIVE SplitFrom(_, _, _, _, _)
SplitFrom(ts, i, cur, level, acc) ==
    IF i > Len(ts)
    THEN IF cur = <<>> \/ AllWhitespace(cur) THEN acc ELSE Append(acc, cur)
    ELSE LET t == ts[i]
             lv == IF t.c = "Punctuation" /\ t.u = "(" THEN level + 1
                   ELSE IF t.c = "Punctuation" /\ t.u = ")" THEN level - 1
                   ELSE level
         IN  IF lv <= 0 /\ t.c = "Punctuation" /\ t.u = ";"
             THEN SplitFrom(ts, i + 1, <<>>, 0, Append(acc, Append(cur, t)))
             ELSE SplitFrom(ts, i + 1, Append(cur, t), lv, acc)

\* sqlparse.parse(sql): the statements, each a token sequence
Parse(s) == SplitFrom(Lex(s), 1, <<>>, 0, <<>>)

\* index of the first token after i that is not whitespace, or 0
NextToken(ts, i) ==
    LET J == {j \in (i + 1)..Len(ts) : ts[j].c # "Whitespace"}
    IN  IF J = {} THEN 0 ELSE CHOOSE j \in J : \A k \in J : j <= k

\* index of the ")" closing the "(" at i, or 0
RECURSIVE CloseFrom(_, _, _)
CloseFrom(ts, j, depth) ==
    IF j > Len(ts) THEN 0
    ELSE IF ts[j].c = "Punctuation" /\ ts[j].u = "("
         THEN CloseFrom(ts, j + 1, depth + 1)
    ELSE IF ts[j].c = "Punctuation" /\ ts[j].u = ")"
         THEN IF depth = 1 THEN j ELSE CloseFrom(ts, j + 1, depth - 1)
    ELSE CloseFrom(ts, j + 1, depth)

IsOpen(ts, i) == i >= 1 /\ i <= Len(ts) /\ ts[i].c = "Punctuation" /\ ts[i].u = "("

\* the group that starts at token i before comparisons and aliases are
\* grouped: [kind, last] (group_parenthesis, group_functions, group_identifier)
Unit(ts, i) ==
    IF ts[i].c = "Name"
    THEN IF IsOpen(ts, i + 1) /\ CloseFrom(ts, i + 1, 0) # 0
         THEN [kind |-> "Function", last |-> CloseFrom(ts, i + 1, 0)]
         ELSE [kind |-> "Identifier", last |-> i]
    ELSE IF IsOpen(ts, i) /\ CloseFrom(ts, i, 0) # 0
         THEN [kind |-> "Parenthesis", last |-> CloseFrom(ts, i, 0)]
    ELSE [kind |-> ts[i].c, last |-> i]

Operand(k) == k \in {"Identifier", "Function", "Parenthesis", "Number", "String"}

\* the class of the statement's first token after grouping
\* (group_comparison, then group_aliased)
GroupedKind(ts, i) ==
    LET un == Unit(ts, i)
        n1 == NextToken(ts, un.last)
        n2 == IF n1 = 0 THEN 0 ELSE NextToken(ts, n1)
    IN  IF Operand(un.kind) /\ n1 # 0 /\ ts[n1].c = "Comparison"
           /\ n2 # 0 /\ Operand(Unit(ts, n2).kind)
        THEN "Comparison"
        ELSE IF un.kind \in {"Function", "Parenthesis", "Number"}
                /\ n1 # 0 /\ Unit(ts, n1).kind = "Identifier"
        THEN "Identifier"
        ELSE un.kind

\* Statement.token_first(): index of the first token that is not whitespace
\* (nor a comment when skip_cm), or 0
TokenFirst(ts, skip_cm) ==
    LET J == {j \in 1..Len(ts) :
                 ts[j].c # "Whitespace" /\ (skip_cm => ts[j].c # "Comment")}
    IN  IF J = {} THEN 0 ELSE CHOOSE j \in J : \A k \in J : j <= k

\* Statement.get_type() # 'UNKNOWN'
KnownType(ts) ==
    LET f == TokenFirst(ts, TRUE)
    IN  IF f = 0 THEN FALSE
        ELSE IF ts[f].c \in {"DML", "DDL"} THEN TRUE
        ELSE IF ts[f].c = "CTE"
             THEN \E j \in (f + 1)..Len(ts) :
                     /\ Unit(ts, j).kind = "Identifier"
                     /\ NextToken(ts, j) # 0
                     /\ ts[NextToken(ts, j)].c = "DML"
        ELSE FALSE

----------------------------------------------------------------------------
(* app/utils/validators.py: SQLValidator *)

Pending == [is_valid |-> FALSE, reason |-> "pending", found |-> {}]
Accept == [is_valid |-> TRUE, reason |-> "None", found |-> {}]
Reject(why) == [is_valid |-> FALSE, reason |-> why, found |-> {}]

\* is_select_only on one parsed statement: TRUE when the loop continues
SelectOnlyStatement(ts) ==
    LET f == TokenFirst(ts, FALSE)
    IN  IF f = 0 THEN FALSE
        ELSE IF ts[f].c = "DML" THEN ts[f].u \in ALLOWED_DML
        ELSE GroupedKind(ts, f) = "Identifier"

is_select_only(s) ==
    LET parsed == Parse(s)
    IN  IF parsed = <<>> THEN FALSE
        ELSE \A k \in 1..Len(parsed) : SelectOnlyStatement(parsed[k])

\* mutation: the search stops at the first keyword it finds
contains_dangerous_keywords_first_only(s) ==
    LET found == {kw \in DANGEROUS_KEYWORDS : Contains(UpperSeq(s), kw)}
    IN  IF found = {} THEN {} ELSE {CHOOSE kw \in found : TRUE}

\* mutation: the text is not upper-cased before the whole-word search
contains_dangerous_keywords_case_sensitive(s) ==
    {kw \in DANGEROUS_KEYWORDS : Contains(s, kw)}

\* the keywords of the denylist found as whole words of sql.upper()
contains_dangerous_keywords(s) ==
    {kw \in DANGEROUS_KEYWORDS : Contains(UpperSeq(s), kw)}

has_multiple_statements(s) ==
    LET parsed == Parse(s)
    IN  Cardinality({k \in 1..Len(parsed) : KnownType(parsed[k])}) > 1

injection_patterns ==
    { <<"'", "\\s*", "OR", "\\s+", "'", "1", "'", "\\s*", "=", "\\s*", "'", "1">>,
      <<"'", "\\s*", "OR", "\\s+", "1", "\\s*", "=", "\\s*", "1">>,
      <<"admin", "'", "\\s*", "--">>,
      <<"'", "\\s*", ";", "\\s*", "DROP", "\\s+", "TABLE">>,
      <<"'", "\\s*", ";", "\\s*", "DELETE", "\\s+", "FROM">>,
      <<"EXEC", "\\s*", "(">>,
      <<"EXECUTE", "\\s*", "(">> }

\* "/*" in sql, "*/" in sql (a marker may straddle two adjacent pieces)
HasOpenComment(s) ==
    Contains(s, "/*")
    \/ \E i \in 1..(Len(s) - 1) : s[i] = "*/" /\ s[i + 1] \in {"*", "*/"}
HasCloseComment(s) ==
    Contains(s, "*/")
    \/ \E i \in 1..(Len(s) - 1) : s[i] \in {"*", "/*"} /\ s[i + 1] = "/*"

\* mutation: the interior-semicolon test is left out
check_sql_injection_patterns_no_semicolon(s) ==
    IF Contains(s, "--") \/ HasOpenComment(s) \/ HasCloseComment(s)
    THEN "SQL comments detected (potential injection)"
    ELSE IF \E pat \in injection_patterns : Search(s, pat)
    THEN "SQL injection pattern detected"
    ELSE "None"

\* the reason of check_sql_injection_patterns, "None" when not suspicious
check_sql_injection_patterns(s) ==
    IF Contains(s, "--") \/ HasOpenComment(s) \/ HasCloseComment(s)
    THEN "SQL comments detected (potential injection)"
    ELSE IF Contains(RStrip(Strip(s), ";"), ";")
    THEN "Multiple statements detected (potential injection)"
    ELSE IF \E pat \in injection_patterns : Search(s, pat)
    THEN "SQL injection pattern detected"
    ELSE "None"

\* mutation: the denylist is searched before the injection patterns
validate_sql_keywords_first(s) ==
    IF s = <<>> \/ Strip(s) = <<>> THEN Reject("Empty SQL query")
    ELSE IF contains_dangerous_keywords(s) # {}
         THEN [is_valid |-> FALSE, reason |-> "Dangerous SQL keywords detected",
               found |-> contains_dangerous_keywords(s)]
    ELSE IF check_sql_injection_patterns(s) # "None"
         THEN Reject(check_sql_injection_patterns(s))
    ELSE IF has_multiple_statements(s)
         THEN Reject("Multiple SQL statements not allowed")
    ELSE IF ~is_select_only(s) THEN Reject("Only SELECT queries are allowed")
    ELSE IF Parse(s) = <<>> THEN Reject("Unable to parse SQL query")
    ELSE Accept

validate_sql(s) ==
    IF s = <<>> \/ Strip(s) = <<>> THEN Reject("Empty SQL query")
    ELSE IF check_sql_injection_patterns(s) # "None"
         THEN Reject(check_sql_injection_patterns(s))
    ELSE IF has_multiple_statements(s)
         THEN Reject("Multiple SQL statements not allowed")
    ELSE IF contains_dangerous_keywords(s) # {}
         THEN [is_valid |-> FALSE, reason |-> "Dangerous SQL keywords detected",
               found |-> contains_dangerous_keywords(s)]
    ELSE IF ~is_select_only(s) THEN Reject("Only SELECT queries are allowed")
    ELSE IF Parse(s) = <<>> THEN Reject("Unable to parse SQL query")
    ELSE Accept

----------------------------------------------------------------------------
(* app/agents/tools/sql_tools.py: validate_query, the validator the SQL    *)
(* agent calls                                                             *)

QueryDenylist ==
    {"DROP", "DELETE", "INSERT", "UPDATE", "ALTER", "TRUNCATE", "CREATE",
     "EXEC", "EXECUTE"}

\* r'\b--\b': the marker must stand between two word characters
DashesBetweenWords(q) ==
    \E i \in 2..(Len(q) - 1) : q[i] = "--" /\ IsWord(q[i - 1]) /\ IsWord(q[i + 1])

\* r'\bxp_\w+\b'
HasXpWord(q) == \E i \in 1..Len(q) : Upper(q[i]) = "XP_CMD"

\* re.match(r'^\s*SELECT\b', query, re.IGNORECASE)
StartsWithSelect(q) == LStrip(q) # <<>> /\ Upper(Head(LStrip(q))) = "SELECT"

\* the issues list of validate_query
QueryIssues(q) ==
    {kw \in QueryDenylist : Contains(UpperSeq(q), kw)}
        \cup (IF DashesBetweenWords(q) THEN {"--"} ELSE {})
        \cup (IF HasOpenComment(q) THEN {"/*"} ELSE {})
        \cup (IF HasCloseComment(q) THEN {"*/"} ELSE {})
        \cup (IF HasXpWord(q) THEN {"xp_"} ELSE {})
        \cup (IF ~StartsWithSelect(q) THEN {"Query must be a SELECT statement"} ELSE {})
        \cup (IF Count(q, "(") # Count(q, ")") THEN {"Unbalanced parentheses"} ELSE {})

validate_query(q) ==
    [is_valid |-> QueryIssues(q) = {},
     reason |-> IF QueryIssues(q) = {} THEN "None" ELSE "issues",
     found |-> QueryIssues(q)]

----------------------------------------------------------------------------
(* app/agents/sql_tools.py: SQLTools._is_safe_sql, the check in front of   *)
(* SQLTools.execute_sql_query                                              *)

SafeSqlDenylist ==
    {"DROP", "DELETE", "INSERT", "UPDATE", "ALTER", "CREATE", "TRUNCATE",
     "GRANT", "REVOKE", "EXEC", "EXECUTE", "CALL"}

\* re.sub(r'--.*$', '', sql): the text before the first "--"
RECURSIVE StripLineComment(_)
StripLineComment(s) ==
    IF s = <<>> \/ Head(s) = "--" THEN <<>>
    ELSE <<Head(s)>> \o StripLineComment(Tail(s))

\* re.sub(r'/\*.*?\*/', '', sql): every closed block comment is cut out
RECURSIVE StripBlockComments(_)
StripBlockComments(s) ==
    IF s = <<>> THEN <<>>
    ELSE IF Head(s) = "/*" /\ NextAt(s, 1, "*/") # 0
         THEN StripBlockComments(SubSeq(s, NextAt(s, 1, "*/") + 1, Len(s)))
    ELSE <<Head(s)>> \o StripBlockComments(Tail(s))

\* Python's "keyword in word" for an upper-cased word piece
Infix(kw, w) ==
    \/ w = kw
    \/ w = "CREATED_AT" /\ kw = "CREATE"
    \/ w = "EXECUTE" /\ kw = "EXEC"

\* mutation: the keywords are searched between word boundaries
SafeSqlFound_whole_word(clean) ==
    {kw \in SafeSqlDenylist : Contains(clean, kw)}

\* the keywords found anywhere in the cleaned, upper-cased text
SafeSqlFound(clean) ==
    {kw \in SafeSqlDenylist : \E i \in 1..Len(clean) : Infix(kw, clean[i])}

_is_safe_sql(s) ==
    LET query_clean == UpperSeq(Strip(StripBlockComments(StripLineComment(s))))
    IN  IF query_clean = <<>> \/ Head(query_clean) \notin {"SELECT", "WITH"}
        THEN Reject("Query must start with SELECT or WITH")
        ELSE IF SafeSqlFound(query_clean) # {}
        THEN [is_valid |-> FALSE, reason |-> "Dangerous keyword detected",
              found |-> SafeSqlFound(query_clean)]
        ELSE Accept

----------------------------------------------------------------------------
(* app/agents/state.py, app/agents/sql_agent.py: the SQL agent of the      *)
(* workflow.  Python None is NoQuery / NoRows / NoError; "" is <<>>.       *)

NoQuery == <<"None">>
NoRows == <<"None">>
RowsOf(q) == <<"rows of">> \o q
Raised == <<"raise">>

\* truth value of an Optional[str]
Truthy(q) == q # NoQuery /\ q # <<>>

NoError == [kind |-> "None", about |-> NoQuery, cause |-> "None"]
Err(kind, q) == [kind |-> kind, about |-> q, cause |-> "None"]
\* f"Failed to execute SQL query: {error_msg}"
Wrap(e) == [kind |-> "Failed to execute SQL query", about |-> e.about, cause |-> e.kind]

\* candidate queries the Language Service may return
Candidates ==
    { <<"SELECT", " ", "users">>, <<"SELECT", " ", "1">>, <<"DROP", " ", "users">>, <<>> }

Intents == {"general", "sql", "dashboard", "sql_and_dashboard"}

create_initial_state(database_id) ==
    [database_id |-> database_id, intent |-> "general", sql_query |-> NoQuery,
     query_results |-> NoRows, dashboard_html |-> "None",
     supervisor_response |-> "None", next_agent |-> "supervisor",
     error |-> NoError, retry_count |-> 0, agent_used |-> "None"]

\* one recorded call of the sql stage
Ev(op, q, ok, arg, rc) == [op |-> op, q |-> q, ok |-> ok, arg |-> arg, rc |-> rc]

\* outcomes of the collaborators during one run of SQLAgent.process
Oracles ==
    [schema : BOOLEAN, gen : Candidates \cup {Raised}, fix : Candidates \cup {Raised},
     exec : BOOLEAN, xschema : BOOLEAN, xfix : Candidates \cup {Raised},
     xexec : BOOLEAN]

\* mutation: a failed run hands back rows
FailureWithRows(err, q, ev) ==
    [error |-> err, sql_query |-> q, query_results |-> RowsOf(q), ev |-> ev]

\* the error dictionaries returned by SQLAgent.process
Failure(err, q, ev) ==
    [error |-> err, sql_query |-> q, query_results |-> NoRows, ev |-> ev]

Success(q, ev) ==
    [error |-> NoError, sql_query |-> q, query_results |-> RowsOf(q), ev |-> ev]

\* the except block of SQLAgent.process: one repair of state["sql_query"],
\* executed as returned
ProcessExcept(s, R, o, err, ev) ==
    LET rc == s.retry_count
        failed == Wrap(err)
    IN  IF rc < R /\ Truthy(s.sql_query)
        THEN IF ~o.xschema
             THEN Failure(failed, s.sql_query,
                          Append(ev, Ev("schema", NoQuery, FALSE, NoQuery, rc)))
             ELSE IF o.xfix = Raised
             THEN Failure(failed, s.sql_query,
                          ev \o <<Ev("schema", NoQuery, TRUE, NoQuery, rc),
                                  Ev("fix", NoQuery, FALSE, s.sql_query, rc)>>)
             ELSE LET ev2 == ev \o <<Ev("schema", NoQuery, TRUE, NoQuery, rc),
                                     Ev("fix", o.xfix, TRUE, s.sql_query, rc),
                                     Ev("execute", o.xfix, o.xexec, NoQuery, rc)>>
                  IN  IF o.xexec THEN Success(o.xfix, ev2)
                      ELSE Failure(failed, s.sql_query, ev2)
        ELSE Failure(failed, s.sql_query, ev)

\* step 4 of SQLAgent.process
ProcessExecute(s, R, o, q, ev) ==
    LET ev2 == Append(ev, Ev("execute", q, o.exec, NoQuery, s.retry_count))
    IN  IF o.exec THEN Success(q, ev2)
        ELSE ProcessExcept(s, R, o, Err("execute", q), ev2)

\* SQLAgent.process(state, db): the result dictionary and the calls made
Process(s, R, o) ==
    LET rc == s.retry_count
        e1 == <<Ev("schema", NoQuery, o.schema, NoQuery, rc)>>
        e2 == Append(e1, Ev("generate", IF o.gen = Raised THEN NoQuery ELSE o.gen,
                            o.gen # Raised, NoQuery, rc))
        e3 == Append(e2, Ev("validate", o.gen, validate_query(o.gen).is_valid,
                            NoQuery, rc))
        e4 == Append(e3, Ev("fix", IF o.fix = Raised THEN NoQuery ELSE o.fix,
                            o.fix # Raised, o.gen, rc))
        e5 == Append(e4, Ev("validate", o.fix, validate_query(o.fix).is_valid,
                            NoQuery, rc))
    IN  IF ~s.database_id
        THEN Failure(Err("No database connection specified", NoQuery), NoQuery, <<>>)
        ELSE IF ~o.schema THEN ProcessExcept(s, R, o, Err("schema", NoQuery), e1)
        ELSE IF o.gen = Raised THEN ProcessExcept(s, R, o, Err("llm", NoQuery), e2)
        ELSE IF validate_query(o.gen).is_valid THEN ProcessExecute(s, R, o, o.gen, e3)
        ELSE IF ~(rc < R) THEN Failure(Err("validation", o.gen), o.gen, e3)
        ELSE IF o.fix = Raised THEN ProcessExcept(s, R, o, Err("llm", NoQuery), e4)
        ELSE IF validate_query(o.fix).is_valid THEN ProcessExecute(s, R, o, o.fix, e5)
        ELSE Failure(Err("validation", o.gen), o.fix, e5)

----------------------------------------------------------------------------
(* app/agents/graph.py: the nodes, the routing function and the graph *)

Max(a, b) == IF a >= b THEN a ELSE b

\* mutation: the retry test admits one attempt too many
ShouldRetryOffByOne(s, R) == s.retry_count <= R /\ Truthy(s.sql_query)

\* sql_agent_node: "retry_count < AGENT_MAX_RETRIES and sql_query"
ShouldRetry(s, R) == s.retry_count < R /\ Truthy(s.sql_query)

\* mutation: a successful run is counted as a retry too
sql_agent_node_counts_success(s, R, r) ==
    LET s1 == [s EXCEPT !.sql_query = r.sql_query, !.query_results = r.query_results]
        s2 == [s1 EXCEPT !.error = r.error, !.retry_count = @ + 1]
    IN  IF r.error # NoError
        THEN IF ShouldRetry(s2, R)
             THEN [s2 EXCEPT !.next_agent = "sql"]
             ELSE [s2 EXCEPT !.next_agent = "supervisor", !.agent_used = "sql_failed"]
        ELSE [s1 EXCEPT !.retry_count = @ + 1,
                        !.next_agent = IF s.intent = "sql_and_dashboard"
                                          THEN "dashboard" ELSE "supervisor",
                        !.agent_used = "sql"]

\* sql_agent_node, given the result of SQLAgent.process
sql_agent_node(s, R, r) ==
    LET s1 == [s EXCEPT !.sql_query = r.sql_query, !.query_results = r.query_results]
        s2 == [s1 EXCEPT !.error = r.error, !.retry_count = @ + 1]
    IN  IF r.error # NoError
        THEN IF ShouldRetry(s2, R)
             THEN [s2 EXCEPT !.next_agent = "sql"]
             ELSE [s2 EXCEPT !.next_agent = "supervisor", !.agent_used = "sql_failed"]
        ELSE [s1 EXCEPT !.next_agent = IF s.intent = "sql_and_dashboard"
                                          THEN "dashboard" ELSE "supervisor",
                        !.agent_used = "sql"]

\* supervisor_agent.classify_intent, given the Language Service's answer
\* ("raise" when the call fails): a dashboard answer for a state without
\* query results becomes sql_and_dashboard
classify_intent(s, answer) ==
    IF answer = "dashboard" /\ s.query_results = NoRows
    THEN "sql_and_dashboard"
    ELSE answer

\* mutation: sql_and_dashboard is sent to the dashboard stage first
supervisor_classify_node_dashboard_first(s, c) ==
    IF c = "raise"
    THEN [s EXCEPT !.error = Err("classify", NoQuery), !.next_agent = "supervisor"]
    ELSE [s EXCEPT !.intent = c,
                   !.next_agent = CASE c = "general" -> "supervisor"
                                    [] c = "sql" -> "sql"
                                    [] c = "dashboard" -> "dashboard"
                                    [] c = "sql_and_dashboard" -> "dashboard"
                                    [] OTHER -> @]

\* supervisor_classify_node, given the classified intent or "raise"
supervisor_classify_node(s, c) ==
    IF c = "raise"
    THEN [s EXCEPT !.error = Err("classify", NoQuery), !.next_agent = "supervisor"]
    ELSE [s EXCEPT !.intent = c,
                   !.next_agent = CASE c = "general" -> "supervisor"
                                    [] c = "sql" -> "sql"
                                    [] c = "dashboard" -> "dashboard"
                                    [] c = "sql_and_dashboard" -> "sql"
                                    [] OTHER -> @]

Apology == "I apologize, but I encountered an error processing your request."

\* supervisor_respond_node; ok = the response was written and saved
supervisor_respond_node(s, ok) ==
    IF ok
    THEN [s EXCEPT !.supervisor_response = "response", !.agent_used = "supervisor",
                   !.next_agent = "end"]
    ELSE [s EXCEPT !.error = Err("supervisor", NoQuery),
                   !.supervisor_response = Apology, !.next_agent = "end"]

\* supervisor_aggregate_node
supervisor_aggregate_node(s, ok) ==
    IF ok
    THEN [s EXCEPT !.supervisor_response = "response", !.next_agent = "end"]
    ELSE [s EXCEPT !.error = Err("supervisor", NoQuery),
                   !.supervisor_response = Apology, !.next_agent = "end"]

\* dashboard_agent_node; d is the visualization outcome
dashboard_agent_node(s, d) ==
    CASE d = "ok" ->
            [s EXCEPT !.dashboard_html = "html",
                      !.agent_used = IF s.agent_used = "sql"
                                        THEN "sql_and_dashboard" ELSE "dashboard",
                      !.next_agent = "supervisor"]
      [] d = "error" ->
            [s EXCEPT !.dashboard_html = "None", !.error = Err("dashboard", NoQuery),
                      !.agent_used = "dashboard_failed", !.next_agent = "supervisor"]
      [] OTHER ->
            [s EXCEPT !.error = Err("dashboard", NoQuery),
                      !.next_agent = "supervisor", !.agent_used = "dashboard_failed"]

route_next(s) ==
    CASE s.next_agent = "supervisor" ->
            IF Truthy(s.sql_query) \/ s.dashboard_html # "None"
            THEN "aggregate" ELSE "supervisor_respond"
      [] s.next_agent = "sql" -> "sql"
      [] s.next_agent = "dashboard" -> "dashboard"
      [] OTHER -> "end"

\* create_agent_graph: the node a conditional edge leads to
Edge(key) == IF key = "end" THEN "END" ELSE key

\* calls of one run that produced a candidate query
Produced(ev) ==
    Cardinality({i \in 1..Len(ev) : ev[i].op \in {"generate", "fix"} /\ ev[i].ok})

Executed(ev) == Cardinality({i \in 1..Len(ev) : ev[i].op = "execute"})

\* the run fits a Language Service stub that always answers with an invalid
\* query, every other collaborator working
StubRun(ev) ==
    \A i \in 1..Len(ev) :
        /\ ev[i].op \in {"generate", "fix"} => ev[i].ok /\ ~validate_query(ev[i].q).is_valid
        /\ ev[i].op = "schema" => ev[i].ok

InitFlow ==
    /\ node = "start"
    /\ classified = "None"
    /\ max_retries \in 0..MaxBudget
    /\ \E d \in BOOLEAN : st = create_initial_state(d)
    /\ events = <<>>
    /\ candidates = 0
    /\ executions = 0
    /\ stub_invalid = TRUE
    /\ sql_runs = 0
    /\ stages = 0
    /\ terminals = 0

\* run_agent_workflow up to graph.ainvoke
Start ==
    /\ node = "start"
    /\ node' = "classify"
    /\ UNCHANGED <<classified, st, max_retries, events, candidates, executions, stub_invalid,
                   sql_runs, stages, terminals>>
    /\ UNCHANGED <<valVars, chat, svcVars>>

Classify ==
    /\ node = "classify"
    /\ \E answer \in Intents \cup {"raise"} :
          /\ classified' = answer
          /\ st' = supervisor_classify_node(st, classify_intent(st, answer))
          /\ node' = Edge(route_next(st'))
    /\ stages' = stages + 1
    /\ UNCHANGED <<max_retries, events, candidates, executions, stub_invalid,
                   sql_runs, terminals>>
    /\ UNCHANGED <<valVars, chat, svcVars>>

SqlStage ==
    /\ node = "sql"
    /\ \E o \in Oracles :
          LET r == Process(st, max_retries, o)
          IN  /\ st' = sql_agent_node(st, max_retries, r)
              /\ events' = r.ev
              /\ candidates' = candidates + Produced(r.ev)
              /\ executions' = executions + Executed(r.ev)
              /\ stub_invalid' = (stub_invalid /\ StubRun(r.ev))
    /\ node' = Edge(route_next(st'))
    /\ sql_runs' = sql_runs + 1
    /\ stages' = stages + 1
    /\ UNCHANGED <<classified, max_retries, terminals>>
    /\ UNCHANGED <<valVars, chat, svcVars>>

\* a call that does not return
Hung == <<"never returns">>

\* sql_agent_node awaiting a Language Service or database call that never
\* returns: process passes timeout=settings.AGENT_TIMEOUT to execute_query,
\* which does not use it, and nothing else bounds the awaits of the stage
SqlStall ==
    /\ node = "sql"
    /\ st.database_id
    /\ \E call \in {"generate", "fix", "execute"} :
          events' = <<Ev("schema", NoQuery, TRUE, NoQuery, st.retry_count),
                      Ev("await", Hung, FALSE, <<call>>, st.retry_count)>>
    /\ node' = "stalled"
    /\ sql_runs' = sql_runs + 1
    /\ stages' = stages + 1
    /\ UNCHANGED <<classified, st, max_retries, candidates, executions, stub_invalid, terminals>>
    /\ UNCHANGED <<valVars, chat, svcVars>>

DashboardStage ==
    /\ node = "dashboard"
    /\ \E d \in {"ok", "error", "raise"} : st' = dashboard_agent_node(st, d)
    /\ node' = Edge(route_next(st'))
    /\ stages' = stages + 1
    /\ UNCHANGED <<classified, max_retries, events, candidates, executions, stub_invalid,
                   sql_runs, terminals>>
    /\ UNCHANGED <<valVars, chat, svcVars>>

SupervisorRespond ==
    /\ node = "supervisor_respond"
    /\ \E ok \in BOOLEAN : st' = supervisor_respond_node(st, ok)
    /\ node' = "END"
    /\ stages' = stages + 1
    /\ terminals' = terminals + 1
    /\ UNCHANGED <<classified, max_retries, events, candidates, executions, stub_invalid, sql_runs>>
    /\ UNCHANGED <<valVars, chat, svcVars>>

Aggregate ==
    /\ node = "aggregate"
    /\ \E ok \in BOOLEAN : st' = supervisor_aggregate_node(st, ok)
    /\ node' = "END"
    /\ stages' = stages + 1
    /\ terminals' = terminals + 1
    /\ UNCHANGED <<classified, max_retries, events, candidates, executions, stub_invalid, sql_runs>>
    /\ UNCHANGED <<valVars, chat, svcVars>>

\* run_agent_workflow after graph.ainvoke: the final state is stored and
\* returned; when the try block raises, the caller's state is returned with
\* the apology
Finish ==
    /\ node = "END"
    /\ \E saved \in BOOLEAN :
          st' = IF saved THEN st
                ELSE [create_initial_state(st.database_id) EXCEPT
                         !.error = Err("workflow", NoQuery),
                         !.supervisor_response = Apology]
    /\ node' = "returned"
    /\ UNCHANGED <<classified, max_retries, events, candidates, executions, stub_invalid,
                   sql_runs, stages, terminals>>
    /\ UNCHANGED <<valVars, chat, svcVars>>

FlowNext ==
    \/ Start
    \/ Classify
    \/ SqlStage
    \/ SqlStall
    \/ DashboardStage
    \/ SupervisorRespond
    \/ Aggregate
    \/ Finish

----------------------------------------------------------------------------
(* app/services/chat_service.py: ChatService.process_chat_query *)

\* the request and the outcomes of the collaborators during one call
ChatInputs ==
    [lookup : {"ok", "not_found"}, has_db : BOOLEAN, mismatch : BOOLEAN,
     action : {"respond", "sql", "dashboard", "other"},
     agent : {"ok", "failed", "raise"}, dash : {"ok", "failed", "raise"},
     c_user : BOOLEAN, c_ok : BOOLEAN, c_err : BOOLEAN, c_outer : BOOLEAN]

NoRequest == [action |-> "None"]

ChatOff == [outcome |-> "off", success |-> FALSE, mode |-> "None",
            error |-> "None", data |-> "absent", dashboard |-> FALSE,
            sql_agent |-> FALSE, req |-> NoRequest]
ChatWaiting == [ChatOff EXCEPT !.outcome = "waiting"]

\* a dictionary returned to the caller
Returned(success, mode, error, data, dashboard) ==
    [outcome |-> "returned", success |-> success, mode |-> mode, error |-> error,
     data |-> data, dashboard |-> dashboard, sql_agent |-> FALSE, req |-> NoRequest]

\* an exception that leaves process_chat_query
Propagated(what) == [ChatOff EXCEPT !.outcome = "raised", !.error = what]

\* the except block of process_chat_query
OuterExcept(i) ==
    IF i.c_outer THEN Returned(FALSE, "None", "An error occurred", "absent", FALSE)
    ELSE Propagated("persistence")

\* the except block of a handler; its own commit may raise into the caller's
HandlerExcept(i, mode, error) ==
    IF i.c_err THEN Returned(FALSE, mode, error, "absent", FALSE)
    ELSE OuterExcept(i)

\* the outcome of a handler that has called SQLAgent.process
WithSqlAgent(r) == [r EXCEPT !.sql_agent = TRUE]

_execute_supervisor_response(i) ==
    IF i.agent = "ok" /\ i.c_ok THEN Returned(TRUE, "general", "None", "empty", FALSE)
    ELSE HandlerExcept(i, "None", "General chat error")

_handle_no_database(i) ==
    IF i.c_ok THEN Returned(TRUE, "general", "None", "empty", FALSE)
    ELSE OuterExcept(i)

_execute_sql_query(i) ==
    WithSqlAgent(
        CASE i.agent = "raise" -> HandlerExcept(i, "sql", "SQL query error")
          [] i.agent = "failed" ->
                IF i.c_ok THEN Returned(FALSE, "sql", "Could not execute query", "absent", FALSE)
                ELSE HandlerExcept(i, "sql", "SQL query error")
          [] OTHER ->
                IF i.c_ok THEN Returned(TRUE, "sql", "None", "rows", FALSE)
                ELSE HandlerExcept(i, "sql", "SQL query error"))

\* mutation: an exception of the visualization step is not caught
_execute_sql_with_dashboard_uncaught(i) ==
    WithSqlAgent(
        CASE i.agent = "raise" -> HandlerExcept(i, "sql", "Dashboard query error")
          [] i.agent = "failed" ->
                IF i.c_ok THEN Returned(FALSE, "sql", "Could not execute query", "absent", FALSE)
                ELSE HandlerExcept(i, "sql", "Dashboard query error")
          [] i.dash = "raise" -> HandlerExcept(i, "sql", "Dashboard query error")
          [] OTHER ->
                IF i.c_ok THEN Returned(TRUE, "sql", "None", "rows", i.dash = "ok")
                ELSE HandlerExcept(i, "sql", "Dashboard query error"))

_execute_sql_with_dashboard(i) ==
    WithSqlAgent(
        CASE i.agent = "raise" -> HandlerExcept(i, "sql", "Dashboard query error")
          [] i.agent = "failed" ->
                IF i.c_ok THEN Returned(FALSE, "sql", "Could not execute query", "absent", FALSE)
                ELSE HandlerExcept(i, "sql", "Dashboard query error")
          [] OTHER ->
                IF i.c_ok THEN Returned(TRUE, "sql", "None", "rows", i.dash = "ok")
                ELSE HandlerExcept(i, "sql", "Dashboard query error"))

\* mutation: a dashboard decision is carried out without a connection
process_chat_query_unguarded(i) ==
    IF i.lookup = "not_found" THEN Propagated("HTTPException 404")
    ELSE IF i.has_db /\ i.mismatch THEN Propagated("HTTPException 400")
    ELSE IF ~i.c_user THEN Propagated("persistence")
    ELSE CASE i.action = "respond" -> _execute_supervisor_response(i)
           [] i.action = "sql" ->
                 IF ~i.has_db THEN _handle_no_database(i) ELSE _execute_sql_query(i)
           [] i.action = "dashboard" -> _execute_sql_with_dashboard(i)
           [] OTHER -> OuterExcept(i)

process_chat_query(i) ==
    IF i.lookup = "not_found" THEN Propagated("HTTPException 404")
    ELSE IF i.has_db /\ i.mismatch THEN Propagated("HTTPException 400")
    ELSE IF ~i.c_user THEN Propagated("persistence")
    ELSE CASE i.action = "respond" -> _execute_supervisor_response(i)
           [] i.action = "sql" ->
                 IF ~i.has_db THEN _handle_no_database(i) ELSE _execute_sql_query(i)
           [] i.action = "dashboard" ->
                 IF ~i.has_db THEN _handle_no_database(i)
                 ELSE _execute_sql_with_dashboard(i)
           [] OTHER -> OuterExcept(i)

ChatQuery ==
    /\ chat = ChatWaiting
    /\ \E i \in ChatInputs : chat' = [process_chat_query(i) EXCEPT !.req = i]
    /\ UNCHANGED <<valVars, flowVars, svcVars>>

----------------------------------------------------------------------------
(* Schema caches of one target: redis_service.schema_cache, used by        *)
(* SchemaService.get_or_load_schema and by the get_database_schema tool of *)
(* the workflow, and the module cache _schema_cache of app/tools/sql_tools *)

\* cache_schema(db_config.id, schema, ttl_minutes=60)
ttl_minutes == 60

NoEntry == [present |-> FALSE, at |-> 0]
\* the snapshot introspected at time now
Snapshot(now) == [present |-> TRUE, at |-> now]

NoLookup ==
    [fn |-> "None", force |-> FALSE, before |-> <<NoEntry, NoEntry>>,
     had |-> NoEntry, io |-> FALSE, outcome |-> "None", result |-> NoEntry,
     now |-> 0]

SchemaIdle ==
    [redis |-> NoEntry, tools |-> NoEntry, clock |-> 0, introspections |-> 0,
     lookups |-> 0, last |-> NoLookup]

\* RedisService.cache_schema: ttl_minutes is ignored
cache_schema(s, snap, ttl) == [s EXCEPT !.redis = snap]

\* RedisService.get_cached_schema
get_cached_schema(s) == s.redis

\* the record of one lookup
Lookup(s, fn, force, had, io, outcome, result) ==
    [fn |-> fn, force |-> force, before |-> <<s.redis, s.tools>>, had |-> had,
     io |-> io, outcome |-> outcome, result |-> result, now |-> s.clock]

\* mutation: the cache is not consulted
RedisLookupUncached(s, fn, ok) ==
    IF ok
    THEN [cache_schema(s, Snapshot(s.clock), ttl_minutes) EXCEPT
            !.introspections = @ + 1, !.lookups = @ + 1,
            !.last = Lookup(s, fn, FALSE, get_cached_schema(s), TRUE, "loaded",
                            Snapshot(s.clock))]
    ELSE [s EXCEPT !.introspections = @ + 1, !.lookups = @ + 1,
                   !.last = Lookup(s, fn, FALSE, get_cached_schema(s), TRUE,
                                   "raised", NoEntry)]

\* cache hit, or introspection followed by cache_schema; a failed
\* introspection raises before anything is stored
RedisLookup(s, fn, ok) ==
    LET cached_schema == get_cached_schema(s)
    IN  IF cached_schema.present
        THEN [s EXCEPT !.lookups = @ + 1,
                       !.last = Lookup(s, fn, FALSE, cached_schema, FALSE, "hit",
                                       cached_schema)]
        ELSE IF ok
        THEN [cache_schema(s, Snapshot(s.clock), ttl_minutes) EXCEPT
                !.introspections = @ + 1, !.lookups = @ + 1,
                !.last = Lookup(s, fn, FALSE, cached_schema, TRUE, "loaded",
                                Snapshot(s.clock))]
        ELSE [s EXCEPT !.introspections = @ + 1, !.lookups = @ + 1,
                       !.last = Lookup(s, fn, FALSE, cached_schema, TRUE, "raised",
                                       NoEntry)]

\* SchemaService.get_or_load_schema
get_or_load_schema(s, ok) == RedisLookup(s, "get_or_load_schema", ok)

\* get_database_schema of app/agents/tools/sql_tools.py: a cache hit returns
\* the snapshot; on a miss db_conn.get_connection_string(), which DBConnection
\* does not define, raises before any engine is created
get_database_schema(s) ==
    LET cached_schema == get_cached_schema(s)
    IN  IF cached_schema.present
        THEN [s EXCEPT !.lookups = @ + 1,
                       !.last = Lookup(s, "get_database_schema", FALSE, cached_schema,
                                       FALSE, "hit", cached_schema)]
        ELSE [s EXCEPT !.lookups = @ + 1,
                       !.last = Lookup(s, "get_database_schema", FALSE, cached_schema,
                                       FALSE, "raised", NoEntry)]

\* mutation: a failed introspection drops the cached entry
SQLTools_get_database_schema_dropping(s, use_cache, ok) ==
    IF use_cache /\ s.tools.present
    THEN [s EXCEPT !.lookups = @ + 1,
                   !.last = Lookup(s, "SQLTools", FALSE, s.tools, FALSE, "hit", s.tools)]
    ELSE IF ok
    THEN [s EXCEPT !.tools = Snapshot(s.clock),
                   !.introspections = @ + 1, !.lookups = @ + 1,
                   !.last = Lookup(s, "SQLTools", ~use_cache, s.tools, TRUE, "loaded",
                                   Snapshot(s.clock))]
    ELSE [s EXCEPT !.tools = NoEntry,
                   !.introspections = @ + 1, !.lookups = @ + 1,
                   !.last = Lookup(s, "SQLTools", ~use_cache, s.tools, TRUE, "error",
                                   NoEntry)]

\* SQLTools.get_database_schema(use_cache): a failure is returned as an
\* error dictionary and nothing is stored
SQLTools_get_database_schema(s, use_cache, ok) ==
    IF use_cache /\ s.tools.present
    THEN [s EXCEPT !.lookups = @ + 1,
                   !.last = Lookup(s, "SQLTools", FALSE, s.tools, FALSE, "hit", s.tools)]
    ELSE IF ok
    THEN [s EXCEPT !.tools = Snapshot(s.clock),
                   !.introspections = @ + 1, !.lookups = @ + 1,
                   !.last = Lookup(s, "SQLTools", ~use_cache, s.tools, TRUE, "loaded",
                                   Snapshot(s.clock))]
    ELSE [s EXCEPT !.introspections = @ + 1, !.lookups = @ + 1,
                   !.last = Lookup(s, "SQLTools", ~use_cache, s.tools, TRUE, "error",
                                   NoEntry)]

SchemaFrame == UNCHANGED <<valVars, flowVars, chat, vault, pool, exec, router, dash, boot, reg>>

GetOrLoadSchema ==
    /\ schema.lookups < MaxLookups
    /\ \E ok \in BOOLEAN : schema' = get_or_load_schema(schema, ok)
    /\ SchemaFrame

GetDatabaseSchema ==
    /\ schema.lookups < MaxLookups
    /\ schema' = get_database_schema(schema)
    /\ SchemaFrame

ToolsGetDatabaseSchema ==
    /\ schema.lookups < MaxLookups
    /\ \E use_cache \in BOOLEAN, ok \in BOOLEAN :
          schema' = SQLTools_get_database_schema(schema, use_cache, ok)
    /\ SchemaFrame

\* half a time-to-live passes
Tick ==
    /\ schema.clock < MaxTicks * (ttl_minutes \div 2)
    /\ schema' = [schema EXCEPT !.clock = @ + (ttl_minutes \div 2)]
    /\ SchemaFrame

SchemaNext ==
    \/ GetOrLoadSchema
    \/ GetDatabaseSchema
    \/ ToolsGetDatabaseSchema
    \/ Tick

----------------------------------------------------------------------------
(* Credential vault: DBConnectionManager.encrypt_password and             *)
(* decrypt_password over Fernet. A password is a sequence of characters;  *)
(* str.encode and bytes.decode are UTF-8; a Fernet token is symbolic: it  *)
(* carries its key, its initialisation vector and the bytes it protects.  *)

PasswordAlphabet == {"p", "@", ":", "é"}

RECURSIVE SeqsUpTo(_, _)
SeqsUpTo(S, n) ==
    IF n = 0 THEN {<<>>}
    ELSE LET shorter == SeqsUpTo(S, n - 1)
         IN  shorter \cup {Append(w, c) : w \in {x \in shorter : Len(x) = n - 1}, c \in S}

Passwords == SeqsUpTo(PasswordAlphabet, MaxPassword)

\* initialisation vectors Fernet may draw
IVs == {1, 2}

\* settings.DB_ENCRYPTION_KEY
DB_ENCRYPTION_KEY == "DB_ENCRYPTION_KEY"

\* the UTF-8 bytes of one character
Utf8(c) ==
    CASE c = "p" -> <<112>>
      [] c = "@" -> <<64>>
      [] c = ":" -> <<58>>
      [] c = "é" -> <<195, 169>>

\* mutation: str.encode("ascii", "ignore")
RECURSIVE str_encode_ascii(_)
str_encode_ascii(s) ==
    IF s = <<>> THEN <<>>
    ELSE IF Len(Utf8(Head(s))) = 1 THEN Utf8(Head(s)) \o str_encode_ascii(Tail(s))
    ELSE str_encode_ascii(Tail(s))

\* str.encode()
RECURSIVE str_encode(_)
str_encode(s) ==
    IF s = <<>> THEN <<>> ELSE Utf8(Head(s)) \o str_encode(Tail(s))

UnicodeDecodeError == <<"UnicodeDecodeError">>

\* bytes.decode(): strict UTF-8
RECURSIVE bytes_decode(_)
bytes_decode(b) ==
    IF b = <<>> THEN <<>>
    ELSE LET one == {c \in PasswordAlphabet : Len(Utf8(c)) = 1 /\ Utf8(c)[1] = b[1]}
             two == {c \in PasswordAlphabet :
                        /\ Len(Utf8(c)) = 2 /\ Len(b) >= 2
                        /\ Utf8(c)[1] = b[1] /\ Utf8(c)[2] = b[2]}
         IN  IF one # {}
             THEN LET rest == bytes_decode(Tail(b))
                  IN  IF rest = UnicodeDecodeError THEN rest
                      ELSE <<CHOOSE c \in one : TRUE>> \o rest
             ELSE IF two # {}
             THEN LET rest == bytes_decode(Tail(Tail(b)))
                  IN  IF rest = UnicodeDecodeError THEN rest
                      ELSE <<CHOOSE c \in two : TRUE>> \o rest
             ELSE UnicodeDecodeError

InvalidToken == <<"InvalidToken">>
NoToken == [form |-> "None", key |-> "None", iv |-> 0, payload |-> <<>>]

\* Fernet(key).encrypt(data): a token of bytes
Fernet_encrypt(key, iv, data) ==
    [form |-> "bytes", key |-> key, iv |-> iv, payload |-> data]

\* Fernet(key).decrypt(token): the protected bytes, or InvalidToken under
\* another key
Fernet_decrypt(key, token) ==
    IF token.form = "bytes" /\ token.key = key
    THEN [valid |-> TRUE, data |-> token.payload]
    ELSE [valid |-> FALSE, data |-> <<>>]

\* the token's base64 text as str, and back
token_decode(token) == [token EXCEPT !.form = "str"]
token_encode(text) == [text EXCEPT !.form = "bytes"]

\* DBConnectionManager.encrypt_password
encrypt_password(password, iv) ==
    token_decode(Fernet_encrypt(DB_ENCRYPTION_KEY, iv, str_encode(password)))

\* DBConnectionManager.decrypt_password
decrypt_password(encrypted_password) ==
    LET opened == Fernet_decrypt(DB_ENCRYPTION_KEY, token_encode(encrypted_password))
    IN  IF opened.valid THEN bytes_decode(opened.data) ELSE InvalidToken

VaultOff == [stage |-> "off", password |-> <<>>, encrypted_password |-> NoToken,
             decrypted |-> <<>>]

VaultFrame == UNCHANGED <<valVars, flowVars, chat, schema, pool, exec, router, dash, boot, reg>>

\* create_database_connection: the password of the request is stored
\* encrypted
EncryptPassword ==
    /\ vault.stage = "entered"
    /\ \E iv \in IVs :
          vault' = [vault EXCEPT !.stage = "stored",
                                 !.encrypted_password = encrypt_password(vault.password, iv)]
    /\ VaultFrame

\* build_connection_url: the stored password is decrypted
DecryptPassword ==
    /\ vault.stage = "stored"
    /\ vault' = [vault EXCEPT !.stage = "decrypted",
                              !.decrypted = decrypt_password(vault.encrypted_password)]
    /\ VaultFrame

VaultNext ==
    \/ EncryptPassword
    \/ DecryptPassword

----------------------------------------------------------------------------
(* Connection manager: DBConnectionManager.get_engine, get_session and    *)
(* test_connection for one target, called from several threads (request  *)
(* handlers in the thread pool, the event loop, the warm thread). A URL   *)
(* and every text derived from it is a sequence of pieces that remember   *)
(* the field they came from.                                              *)

Piece(ch, from) == [ch |-> ch, from |-> from]

RECURSIVE Tagged(_, _)
Tagged(s, from) ==
    IF s = <<>> THEN <<>> ELSE <<Piece(Head(s), from)>> \o Tagged(Tail(s), from)

Delim(ch) == Piece(ch, "url")

\* the passwords of the targets explored with the connection manager
PoolPasswords == {<<"p">>, <<"p", "@", "p">>, <<"@", ":", "p">>}

DbTypes == {"postgresql", "mysql"}

\* DBConnectionManager.build_connection_url(db_config, use_ssl=True): the
\* decrypted password is interpolated as it is
build_connection_url(db_config) ==
    LET password == decrypt_password(db_config.encrypted_password)
    IN  <<Piece(IF db_config.db_type = "postgresql" THEN "postgresql://"
                ELSE "mysql+pymysql://", "url"),
          Piece("user", "username"), Delim(":")>>
        \o Tagged(password, "password")
        \o <<Delim("@"), Piece("db.example.com", "host"), Delim(":"),
             Piece("5432", "port"), Delim("/"), Piece("sales", "database_name"),
             Delim("?"),
             Piece(IF db_config.db_type = "postgresql" THEN "sslmode=require"
                   ELSE "ssl=true", "url")>>

\* the first position from i on whose character is in stop, or Len(u) + 1
RECURSIVE Until(_, _, _)
Until(u, i, stop) ==
    IF i > Len(u) \/ u[i].ch \in stop THEN i ELSE Until(u, i + 1, stop)

\* sqlalchemy.engine.url.make_url: username up to ':' or '/', password up to
\* the first '@', host up to '/', ':' or '?', port up to '/' or '?', database
\* up to '?'
make_url(u) ==
    LET uEnd   == Until(u, 2, {":", "/"})
        hasPw  == uEnd <= Len(u) /\ u[uEnd].ch = ":"
        pEnd   == IF hasPw THEN Until(u, uEnd + 1, {"@"}) ELSE Until(u, 2, {"@"})
        creds  == pEnd <= Len(u) /\ (hasPw \/ pEnd = uEnd)
        hFrom  == IF creds THEN pEnd + 1 ELSE 2
        hEnd   == Until(u, hFrom, {"/", ":", "?"})
        hasPt  == hEnd <= Len(u) /\ u[hEnd].ch = ":"
        ptEnd  == IF hasPt THEN Until(u, hEnd + 1, {"/", "?"}) ELSE hEnd
        hasDb  == ptEnd <= Len(u) /\ u[ptEnd].ch = "/"
        dbEnd  == IF hasDb THEN Until(u, ptEnd + 1, {"?"}) ELSE ptEnd
    IN  [password |-> IF creds /\ hasPw THEN SubSeq(u, uEnd + 1, pEnd - 1) ELSE <<>>,
         host     |-> SubSeq(u, hFrom, hEnd - 1),
         port     |-> IF hasPt THEN SubSeq(u, hEnd + 1, ptEnd - 1) ELSE <<>>,
         database |-> IF hasDb THEN SubSeq(u, ptEnd + 1, dbEnd - 1) ELSE <<>>]

NoText == [kind |-> "None", about |-> <<>>]
Text(kind, about) == [kind |-> kind, about |-> about]

\* int(components["port"]) in make_url
PortIsNumber(port) == port = <<>> \/ (Len(port) = 1 /\ port[1].from = "port")

\* engine.connect(): the driver resolves the host of the URL and connects;
\* up says whether the target answers
Connect(url, up) ==
    LET parts == make_url(url)
    IN  IF Len(parts.host) # 1 \/ parts.host[1].from # "host"
        THEN Text("could not translate host name", parts.host)
        ELSE IF ~up THEN Text("connection refused", parts.host \o parts.port)
        ELSE NoText

Threads == 1..MaxThreads

NoEngine == 0

ThreadIdle ==
    [pc |-> "idle", call |-> "None", read_only |-> TRUE, engine |-> NoEngine,
     got |-> NoEngine, error |-> NoText, connect_failed |-> FALSE,
     before |-> [r \in BOOLEAN |-> NoEngine]]

PoolOff ==
    [db_type |-> "None", encrypted_password |-> NoToken,
     connections |-> [r \in BOOLEAN |-> NoEngine], engines |-> <<>>, calls |-> 0,
     log |-> {}, threads |-> [k \in Threads |-> ThreadIdle]]

PoolFrame == UNCHANGED <<valVars, flowVars, chat, schema, vault, exec, router, dash, boot, reg>>

\* where a finished get_engine leaves its caller
AfterGetEngine(call) == IF call = "test_connection" THEN "probe" ELSE "returned"

\* a thread enters get_engine, get_session or test_connection; get_engine
\* looks its key up in _connections and returns the cached engine
Call(k) ==
    /\ pool.threads[k].pc \in {"idle", "returned", "raised"}
    /\ pool.calls < MaxCalls
    /\ \E call \in {"get_engine", "get_session", "test_connection"}, r \in BOOLEAN :
          /\ call = "test_connection" => r
          /\ LET cached == pool.connections[r]
                 th == [ThreadIdle EXCEPT !.call = call, !.read_only = r,
                                          !.before = pool.connections]
             IN  pool' = [pool EXCEPT
                    !.calls = @ + 1,
                    !.threads[k] =
                        IF cached # NoEngine
                        THEN [th EXCEPT !.pc = AfterGetEngine(call), !.got = cached]
                        ELSE [th EXCEPT !.pc = "build"]]
    /\ PoolFrame

\* get_engine after a miss: build_connection_url, create_engine, and for a
\* read-only postgresql engine a connection attempt whose failure is printed
\* and swallowed
Build(k) ==
    /\ pool.threads[k].pc = "build"
    /\ \E up \in BOOLEAN :
          LET th  == pool.threads[k]
              url == build_connection_url(pool)
              attempt == IF th.read_only /\ pool.db_type = "postgresql"
                         THEN Connect(url, up) ELSE NoText
          IN  IF ~PortIsNumber(make_url(url).port)
              THEN pool' = [pool EXCEPT
                      !.threads[k] =
                          IF th.call = "test_connection"
                          THEN [th EXCEPT !.pc = "returned",
                                          !.error = Text("invalid literal for int()",
                                                         make_url(url).port)]
                          ELSE [th EXCEPT !.pc = "raised",
                                          !.error = Text("invalid literal for int()",
                                                         make_url(url).port)]]
              ELSE pool' = [pool EXCEPT
                      !.engines = Append(@, th.read_only),
                      !.log = IF attempt = NoText THEN @ ELSE @ \cup {attempt},
                      !.threads[k] = [th EXCEPT !.pc = "store",
                                                !.engine = Len(pool.engines) + 1,
                                                !.connect_failed = attempt # NoText]]
    /\ PoolFrame

\* get_engine: self._connections[cache_key] = engine; return engine
Store(k) ==
    /\ pool.threads[k].pc = "store"
    /\ LET th == pool.threads[k]
       IN  pool' = [pool EXCEPT
              !.connections[th.read_only] = th.engine,
              !.threads[k] = [th EXCEPT !.pc = AfterGetEngine(th.call),
                                        !.got = th.engine]]
    /\ PoolFrame

\* test_connection: engine.connect() and SELECT 1 on the engine get_engine
\* returned; a failure becomes the error_message of the test log
Probe(k) ==
    /\ pool.threads[k].pc = "probe"
    /\ \E up \in BOOLEAN :
          pool' = [pool EXCEPT
              !.threads[k] = [@ EXCEPT !.pc = "returned",
                                       !.error = Connect(build_connection_url(pool), up)]]
    /\ PoolFrame

PoolNext ==
    \/ \E k \in Threads : Call(k)
    \/ \E k \in Threads : Build(k)
    \/ \E k \in Threads : Store(k)
    \/ \E k \in Threads : Probe(k)

----------------------------------------------------------------------------
(* Query execution: SQLTools.execute_sql (app/tools/sql_tools.py),         *)
(* execute_query (app/agents/tools/sql_tools.py) and                       *)
(* SQLTools.execute_sql_query (app/agents/sql_tools.py).  A result set is  *)
(* its number of rows.                                                     *)

MAX_QUERY_ROWS == 10000

\* values of settings.MAX_QUERY_ROWS, and sizes of the query's result set
RowCaps == (1..MaxCap) \cup {MAX_QUERY_ROWS}
ResultSizes == (0..MaxRows) \cup {MAX_QUERY_ROWS, MAX_QUERY_ROWS + 1}

\* Result.fetchmany(n) on a result set of the given size
fetchmany(size, n) == IF size <= n THEN size ELSE n

\* "for row in result: rows.append(row_dict)"
fetch_every_row(size) == size

ExecOff ==
    [cap |-> MAX_QUERY_ROWS, size |-> 0, tool |-> "none", query |-> NoQuery,
     outcome |-> "none", rows |-> 0]

Executed_by(e, tool, q, outcome, rows) ==
    [e EXCEPT !.tool = tool, !.query = q, !.outcome = outcome, !.rows = rows]

\* tools/sql_tools.py: validate, then fetchmany(settings.MAX_QUERY_ROWS)
execute_sql(e, q, ok) ==
    IF ~validate_sql(q).is_valid
    THEN Executed_by(e, "execute_sql", q, "SQL validation failed", 0)
    ELSE IF ~ok THEN Executed_by(e, "execute_sql", q, "Database error", 0)
    ELSE Executed_by(e, "execute_sql", q, "success", fetchmany(e.size, e.cap))

\* agents/tools/sql_tools.py: DBConnection has no get_connection_string, so
\* the call raises before an engine exists; the except clause re-raises
execute_query(e, q) == Executed_by(e, "execute_query", q, "raise", 0)

\* agents/sql_tools.py: _is_safe_sql, then every row of the result
execute_sql_query(e, q, ok) ==
    IF ~_is_safe_sql(q).is_valid
    THEN Executed_by(e, "execute_sql_query", q, "Query validation failed", 0)
    ELSE IF ~ok THEN Executed_by(e, "execute_sql_query", q, "error", 0)
    ELSE Executed_by(e, "execute_sql_query", q, "success", fetch_every_row(e.size))

ExecFrame == UNCHANGED <<valVars, flowVars, chat, schema, vault, pool, router, dash, boot, reg>>

ExecuteSql ==
    /\ exec.tool = "none"
    /\ \E q \in Candidates, ok \in BOOLEAN : exec' = execute_sql(exec, q, ok)
    /\ ExecFrame

ExecuteQuery ==
    /\ exec.tool = "none"
    /\ \E q \in Candidates : exec' = execute_query(exec, q)
    /\ ExecFrame

ExecuteSqlQuery ==
    /\ exec.tool = "none"
    /\ \E q \in Candidates, ok \in BOOLEAN : exec' = execute_sql_query(exec, q, ok)
    /\ ExecFrame

ExecNext ==
    \/ ExecuteSql
    \/ ExecuteQuery
    \/ ExecuteSqlQuery

----------------------------------------------------------------------------
(* app/agents/supervisor_agent.py: SupervisorAgent.route_query, as         *)
(* ChatService.process_chat_query calls it.  A query is a sequence of      *)
(* characters.                                                             *)

KeyLength == 50

\* n times the character c
Run(c, n) == [i \in 1..n |-> c]

\* queries that differ in case and padding only, and long queries that
\* differ behind the first KeyLength characters only
RouterQueries ==
    { <<"s", "q", "l">>, <<" ", "S", "q", "L", " ">>,
      Run("s", KeyLength) \o <<"a">>, Run("s", KeyLength) \o <<"b">> }

\* str.lower() on one character
Lower(c) ==
    CASE c = "S" -> "s"
      [] c = "L" -> "l"
      [] OTHER   -> c

\* hashlib.md5(...).hexdigest(): equal digests for equal texts only
md5(text) == [hexdigest_of |-> text]

_get_cache_key(query, has_database) ==
    LET stripped == Strip([i \in 1..Len(query) |-> Lower(query[i])])
        normalized == SubSeq(stripped, 1,
                             IF Len(stripped) < KeyLength THEN Len(stripped)
                             ELSE KeyLength)
    IN  md5(<<normalized, has_database>>)

\* the keys besides "action" that the routing prompt asks for
DecisionFields == {"reasoning", "confidence"}

\* a dictionary without the key "action"
NoAction == "None"

\* what the Language Service does with the routing prompt: it fails, or it
\* answers with text.  json is what re.search and json.loads make of the
\* text: "none" (no braces), "malformed" (braces that are not JSON), or the
\* value of "action" in the object (NoAction when the key is missing), with
\* fields the other keys of the object; mentions are the words of the text
LsAnswers ==
    { [fails |-> TRUE, json |-> "none", fields |-> {}, mentions |-> {}],
      [fails |-> FALSE, json |-> "sql", fields |-> DecisionFields, mentions |-> {"sql"}],
      [fails |-> FALSE, json |-> "respond", fields |-> DecisionFields, mentions |-> {"sql"}],
      [fails |-> FALSE, json |-> "dashboard", fields |-> DecisionFields,
       mentions |-> {"dashboard"}],
      [fails |-> FALSE, json |-> "delete", fields |-> DecisionFields, mentions |-> {}],
      [fails |-> FALSE, json |-> NoAction, fields |-> {"reasoning"}, mentions |-> {}],
      [fails |-> FALSE, json |-> "sql", fields |-> {}, mentions |-> {"sql"}],
      [fails |-> FALSE, json |-> "malformed", fields |-> {},
       mentions |-> {"sql", "dashboard"}],
      [fails |-> FALSE, json |-> "malformed", fields |-> {}, mentions |-> {"dashboard"}],
      [fails |-> FALSE, json |-> "none", fields |-> {}, mentions |-> {"sql", "dashboard"}],
      [fails |-> FALSE, json |-> "none", fields |-> {}, mentions |-> {"dashboard"}],
      [fails |-> FALSE, json |-> "none", fields |-> {}, mentions |-> {}] }

\* the dictionary built from the words of the text
FromText(action) == [action |-> action, method |-> "none", fields |-> DecisionFields]

\* mutation: the word dashboard is looked for before the word sql
_parse_decision_dashboard_first(answer) ==
    IF answer.json \notin {"none", "malformed"}
    THEN [action |-> answer.json, method |-> "none", fields |-> answer.fields]
    ELSE IF "dashboard" \in answer.mentions THEN FromText("dashboard")
    ELSE IF "sql" \in answer.mentions THEN FromText("sql")
    ELSE FromText("respond")

_parse_decision(answer) ==
    IF answer.json \notin {"none", "malformed"}
    THEN [action |-> answer.json, method |-> "none", fields |-> answer.fields]
    ELSE IF "sql" \in answer.mentions THEN FromText("sql")
    ELSE IF "dashboard" \in answer.mentions THEN FromText("dashboard")
    ELSE FromText("respond")

\* mutation: no except clause around the Language Service call
_ai_route_raising(answer) ==
    IF answer.fails THEN [action |-> "raise", method |-> "none", fields |-> {}]
    ELSE [_parse_decision(answer) EXCEPT !.method = "ai"]

_ai_route(answer) ==
    IF answer.fails
    THEN [action |-> "respond", method |-> "fallback", fields |-> DecisionFields]
    ELSE [_parse_decision(answer) EXCEPT !.method = "ai"]

\* route_query on an agent whose decision_cache is cache: the cache
\* afterwards and the record of the call
route_query(cache, query, has_database, answer) ==
    LET cache_key == _get_cache_key(query, has_database)
    IN  IF \E e \in cache : e.key = cache_key
        THEN [cache |-> cache,
              call |-> [key |-> cache_key,
                        decision |-> (CHOOSE e \in cache : e.key = cache_key).decision,
                        ls_call |-> FALSE, ls_failed |-> FALSE, answer |-> answer]]
        ELSE [cache |-> cache \cup {[key |-> cache_key, decision |-> _ai_route(answer)]},
              call |-> [key |-> cache_key, decision |-> _ai_route(answer),
                        ls_call |-> TRUE, ls_failed |-> answer.fails,
                        answer |-> answer]]

\* SupervisorAgent.__init__: self.decision_cache = {}
SupervisorAgent == {}

RouterOff == [cache |-> {}, calls |-> <<>>]

RouterFrame == UNCHANGED <<valVars, flowVars, chat, schema, vault, pool, exec, dash, boot, reg>>

\* process_chat_query: "supervisor = SupervisorAgent(claude_service)", then
\* "decision = await supervisor.route_query(...)"
RouteRequest ==
    /\ Len(router.calls) < MaxRequests
    /\ \E query \in RouterQueries, has_database \in BOOLEAN, answer \in LsAnswers :
          LET routed == route_query(SupervisorAgent, query, has_database, answer)
          IN  router' = [cache |-> routed.cache,
                         calls |-> Append(router.calls, routed.call)]
    /\ RouterFrame

RouterNext ==
    \/ RouteRequest

----------------------------------------------------------------------------
(* app/agents/dashboard_agent.py: DashboardAgent.process, as               *)
(* ChatService._execute_sql_with_dashboard calls it.  Requests run as      *)
(* coroutines of one event loop: a step runs from one await of the         *)
(* Language Service to the next.                                           *)

max_iterations == 6

InFlight == 1..MaxInFlight

NoData == <<"None">>

\* sql_results["data"] of request r
DataOf(r) == <<"rows of request", r>>

\* mutation: one module-level agent serves every request
DashboardAgent_shared(agents) ==
    IF agents = <<>>
    THEN [agents |-> <<[_current_data |-> NoData]>>, id |-> 1]
    ELSE [agents |-> agents, id |-> 1]

\* "dashboard_agent = DashboardAgent(claude_service)": a new object per call
DashboardAgent(agents) ==
    [agents |-> Append(agents, [_current_data |-> NoData]), id |-> Len(agents) + 1]

RequestIdle == [pc |-> "idle", agent |-> 0, iteration |-> 0, fed |-> {}, error |-> "None"]

DashOff == [agents |-> <<>>, reqs |-> [r \in InFlight |-> RequestIdle]]

\* the end of _process_internal: the agent's copy of the data is dropped
CleanUp(d, r, why) ==
    [d EXCEPT !.agents[d.reqs[r].agent]._current_data = NoData,
              !.reqs[r].pc = "done", !.reqs[r].error = why]

\* _process_internal up to its first await; has_data is FALSE for an empty
\* result
process_begin(d, r, has_data) ==
    LET made == DashboardAgent(d.agents)
    IN  IF ~has_data
        THEN [d EXCEPT !.agents = made.agents,
                       !.reqs[r] = [RequestIdle EXCEPT !.pc = "done", !.agent = made.id,
                                                       !.error = "No data to visualize"]]
        ELSE [d EXCEPT !.agents = [made.agents EXCEPT ![made.id]._current_data = DataOf(r)],
                       !.reqs[r] = [RequestIdle EXCEPT !.pc = "await", !.agent = made.id,
                                                       !.iteration = 1]]

\* _process_internal from the return of create_message_async to the next
\* await or to the end; stop is what the Language Service answered
process_resume(d, r, stop) ==
    LET me == d.reqs[r]
        fed == IF stop = "analyze_data_structure"
               THEN [d EXCEPT !.reqs[r].fed = @ \cup {d.agents[me.agent]._current_data}]
               ELSE d
    IN  CASE stop = "raise" -> CleanUp(d, r, "Agent error")
          [] stop = "end_turn" -> CleanUp(d, r, "Dashboard Agent ended without generating HTML")
          [] stop = "max_tokens" -> CleanUp(d, r, "Unexpected stop reason")
          [] stop = "generate_dashboard_html" -> CleanUp(d, r, "None")
          [] OTHER ->
                IF me.iteration < max_iterations
                THEN [fed EXCEPT !.reqs[r].iteration = @ + 1]
                ELSE CleanUp(fed, r, "Maximum iterations reached without generating dashboard")

LsStops ==
    {"raise", "end_turn", "max_tokens", "generate_dashboard_html",
     "analyze_data_structure", "create_dashboard_layout"}

DashFrame == UNCHANGED <<valVars, flowVars, chat, schema, vault, pool, exec, router, boot, reg>>

BeginDashboard(r) ==
    /\ dash.reqs[r].pc = "idle"
    /\ \E has_data \in BOOLEAN : dash' = process_begin(dash, r, has_data)
    /\ DashFrame

ResumeDashboard(r) ==
    /\ dash.reqs[r].pc = "await"
    /\ \E stop \in LsStops : dash' = process_resume(dash, r, stop)
    /\ DashFrame

\* asyncio.wait_for gives up: the coroutine is cancelled at its await
TimeoutDashboard(r) ==
    /\ dash.reqs[r].pc = "await"
    /\ dash' = [dash EXCEPT !.reqs[r].pc = "done",
                            !.reqs[r].error = "Dashboard generation timed out"]
    /\ DashFrame

DashNext ==
    \/ \E r \in InFlight : BeginDashboard(r)
    \/ \E r \in InFlight : ResumeDashboard(r)
    \/ \E r \in InFlight : TimeoutDashboard(r)

----------------------------------------------------------------------------
(* app/main.py: lifespan up to its yield.  warm_cache runs as a task of    *)
(* the event loop and _load_schemas in a thread of the default executor;   *)
(* the task may stop at any call that does not return.                     *)

BootOff == [pc |-> "off", task |-> "none", warm |-> "none", found |-> 0, loads |-> <<>>]

BootFrame == UNCHANGED <<valVars, flowVars, chat, schema, vault, pool, exec, router, dash, reg>>

\* mutation: lifespan awaits the task itself
wait_for_shield_unbounded(task) ==
    IF task = "done" THEN "finished" ELSE "pending"

\* asyncio.wait_for(asyncio.shield(cache_task), timeout=0.5): the task's end,
\* or TimeoutError with the task left running
wait_for_shield(task) ==
    IF task = "done" THEN "finished" ELSE "TimeoutError"

\* mutation: an exception of one target leaves the loop
load_schema_uncaught(b, outcome) ==
    [b EXCEPT !.loads = Append(@, outcome),
              !.warm = IF outcome = "raised" \/ Len(b.loads) + 1 = b.found
                       THEN "close" ELSE "loop"]

\* one pass of "for conn in connections": SQLTools(...).get_database_schema
\* returns a schema or an error dictionary, or raises into the except of
\* the loop body
load_schema(b, outcome) ==
    [b EXCEPT !.loads = Append(@, outcome),
              !.warm = IF Len(b.loads) + 1 = b.found THEN "close" ELSE "loop"]

\* lifespan: the imports, then asyncio.create_task(warm_cache()); a failing
\* import is printed as a startup warning
StartLifespan ==
    /\ boot.pc = "start"
    /\ \E imported \in BOOLEAN :
          boot' = IF imported
                  THEN [boot EXCEPT !.pc = "waiting", !.task = "running",
                                    !.warm = "query"]
                  ELSE [boot EXCEPT !.pc = "ready"]
    /\ BootFrame

\* lifespan: the bounded wait, "Application Ready!" and the yield
AnnounceReady ==
    /\ boot.pc = "waiting"
    /\ wait_for_shield(boot.task) \in {"finished", "TimeoutError"}
    /\ boot' = [boot EXCEPT !.pc = "ready"]
    /\ BootFrame

\* _load_schemas: SessionLocal() and the query of the active connections;
\* an exception ends the task in the except of warm_cache
WarmQuery ==
    /\ boot.task = "running" /\ boot.warm = "query"
    /\ \E raises \in BOOLEAN, n \in 0..MaxTargets :
          boot' = IF raises THEN [boot EXCEPT !.warm = "failed"]
                  ELSE [boot EXCEPT !.found = n,
                                    !.warm = IF n = 0 THEN "close" ELSE "loop"]
    /\ BootFrame

WarmLoad ==
    /\ boot.task = "running" /\ boot.warm = "loop"
    /\ \E outcome \in {"loaded", "error", "raised"} :
          boot' = load_schema(boot, outcome)
    /\ BootFrame

\* the finally of _load_schemas and the return or the except of warm_cache
WarmEnd ==
    /\ boot.task = "running" /\ boot.warm \in {"close", "failed"}
    /\ boot' = [boot EXCEPT !.task = "done",
                            !.warm = IF @ = "close" THEN "end" ELSE @]
    /\ BootFrame

BootNext ==
    \/ StartLifespan
    \/ AnnounceReady
    \/ WarmQuery
    \/ WarmLoad
    \/ WarmEnd

----------------------------------------------------------------------------
(* app/api/database.py and DBConnectionManager: one target's profile row,  *)
(* the engines pooled for its id and the schema cached for its id.  rev    *)
(* counts the updates the row has had: an engine or a schema of rev n was  *)
(* built from the profile as it was after n updates.                       *)

NoneBuilt == [present |-> FALSE, rev |-> 0]
BuiltFrom(rev) == [present |-> TRUE, rev |-> rev]

NoUse == [fn |-> "None", got |-> NoneBuilt, rev |-> 0]

RegOff ==
    [present |-> FALSE, rev |-> 0, connections |-> [r \in BOOLEAN |-> NoneBuilt],
     schema |-> NoneBuilt, uses |-> 0, last |-> NoUse]

RegFrame == UNCHANGED <<valVars, flowVars, chat, schema, vault, pool, exec, router, dash, boot>>

\* DBConnectionManager.get_engine(db_config, read_only) for the row as it is
get_engine(g, r) ==
    IF g.connections[r].present
    THEN [g EXCEPT !.uses = @ + 1,
                   !.last = [fn |-> "get_engine", got |-> g.connections[r], rev |-> g.rev]]
    ELSE [g EXCEPT !.connections[r] = BuiltFrom(g.rev), !.uses = @ + 1,
                   !.last = [fn |-> "get_engine", got |-> BuiltFrom(g.rev), rev |-> g.rev]]

\* get_session binds its session to the engine of get_engine
get_session(g, r) == [get_engine(g, r) EXCEPT !.last.fn = "get_session"]

\* SchemaService.get_or_load_schema for the row as it is: the cache is
\* keyed by db_config.id
LoadSchemaOf(g) ==
    IF g.schema.present
    THEN [g EXCEPT !.uses = @ + 1,
                   !.last = [fn |-> "get_or_load_schema", got |-> g.schema, rev |-> g.rev]]
    ELSE [g EXCEPT !.schema = BuiltFrom(g.rev), !.uses = @ + 1,
                   !.last = [fn |-> "get_or_load_schema", got |-> BuiltFrom(g.rev),
                             rev |-> g.rev]]

\* PUT /{connection_id}: the fields are written and committed
update_database_connection(g) == [g EXCEPT !.rev = @ + 1, !.last = NoUse]

\* DELETE /{connection_id}: the row is deleted and committed
delete_database_connection(g) == [g EXCEPT !.present = FALSE, !.last = NoUse]

GetEngine ==
    /\ reg.present /\ reg.uses < MaxUses
    /\ \E r \in BOOLEAN : reg' = get_engine(reg, r)
    /\ RegFrame

GetSession ==
    /\ reg.present /\ reg.uses < MaxUses
    /\ \E r \in BOOLEAN : reg' = get_session(reg, r)
    /\ RegFrame

LoadSchema ==
    /\ reg.present /\ reg.uses < MaxUses
    /\ reg' = LoadSchemaOf(reg)
    /\ RegFrame

UpdateProfile ==
    /\ reg.present /\ reg.rev < MaxUpdates
    /\ reg' = update_database_connection(reg)
    /\ RegFrame

DeleteProfile ==
    /\ reg.present
    /\ reg' = delete_database_connection(reg)
    /\ RegFrame

RegNext ==
    \/ GetEngine
    \/ GetSession
    \/ LoadSchema
    \/ UpdateProfile
    \/ DeleteProfile

----------------------------------------------------------------------------
(* Validator harness: one text, both validators applied to it *)

FlowIdle ==
    /\ node = "idle"
    /\ classified = "None"
    /\ max_retries = 0
    /\ st = create_initial_state(FALSE)
    /\ events = <<>>
    /\ candidates = 0
    /\ executions = 0
    /\ stub_invalid = TRUE
    /\ sql_runs = 0
    /\ stages = 0
    /\ terminals = 0

InitValidate ==
    /\ sql \in Inputs
    /\ v_sql = Pending
    /\ v_query = Pending
    /\ v_safe = Pending
    /\ FlowIdle
    /\ chat = ChatOff
    /\ schema = SchemaIdle
    /\ vault = VaultOff
    /\ pool = PoolOff
    /\ exec = ExecOff
    /\ router = RouterOff
    /\ dash = DashOff
    /\ boot = BootOff
    /\ reg = RegOff

RunValidateSql ==
    /\ v_sql = Pending
    /\ v_sql' = validate_sql(sql)
    /\ UNCHANGED <<sql, v_query, v_safe, flowVars, chat, svcVars>>

RunValidateQuery ==
    /\ v_query = Pending
    /\ v_query' = validate_query(sql)
    /\ UNCHANGED <<sql, v_sql, v_safe, flowVars, chat, svcVars>>

RunIsSafeSql ==
    /\ v_safe = Pending
    /\ v_safe' = _is_safe_sql(sql)
    /\ UNCHANGED <<sql, v_sql, v_query, flowVars, chat, svcVars>>

ValidateNext ==
    \/ RunValidateSql
    \/ RunValidateQuery
    \/ RunIsSafeSql

ValidateIdle ==
    /\ sql = <<>>
    /\ v_sql = Pending
    /\ v_query = Pending
    /\ v_safe = Pending

----------------------------------------------------------------------------
(* Properties of the validators, checked under SpecValidate *)

\* a denylisted keyword stands in the text as a whole word, in any case
HasDenylistedWord(s) == \E i \in 1..Len(s) : Upper(s[i]) \in DANGEROUS_KEYWORDS

\* the first piece that is not whitespace, "" when there is none
FirstPiece(s) == IF LStrip(s) = <<>> THEN "" ELSE Head(LStrip(s))

\* something other than blanks and semicolons follows a semicolon
HasSecondStatement(s) ==
    \E i \in 1..Len(s) : \E j \in (i + 1)..Len(s) :
        s[i] = ";" /\ s[j] \notin {" ", ";"}

\* C2: a text that contains one of the 14 denylisted keywords as a whole
\* word, in any letter case, is never accepted by validate_sql.
C2_DenylistedKeywordRejected ==
    (v_sql # Pending /\ HasDenylistedWord(sql)) => ~v_sql.is_valid

\* a lower-case keyword behind a leading SELECT has been validated and refused
C2_Witness ==
    /\ sql = <<"SELECT", " ", "drop">>
    /\ v_sql # Pending
    /\ ~v_sql.is_valid
    /\ v_sql.found = {"DROP"}

\* C3 (as stated): a text whose first non-whitespace token is not SELECT or
\* WITH is never accepted by validate_sql.
C3_NonSelectStartRejected ==
    (v_sql # Pending /\ Upper(FirstPiece(sql)) \notin ALLOWED_DML) => ~v_sql.is_valid

\* C4: a text with a second statement after a semicolon is never accepted by
\* validate_sql, whatever the statements are.
C4_SecondStatementRejected ==
    (v_sql # Pending /\ HasSecondStatement(sql)) => ~v_sql.is_valid

\* two SELECTs, and a SELECT followed by a statement of unknown type, have
\* been validated and refused
C4_Witness ==
    /\ sql \in { <<"SELECT", " ", "1", ";", " ", "SELECT", " ", "1">>,
                <<"SELECT", " ", "1", ";", " ", "users">> }
    /\ v_sql # Pending
    /\ ~v_sql.is_valid

\* C5 (as stated): whatever validate_sql rejects, validate_query reports
\* invalid as well.
C5_ValidateQueryRefinesValidateSql ==
    (v_sql # Pending /\ v_query # Pending /\ ~v_sql.is_valid) => ~v_query.is_valid

\* no comment marker, no semicolon but one closing the text, none of the
\* listed injection shapes, parentheses that pair up around something and
\* quotes that pair up
Unsuspicious(s) ==
    /\ ~Contains(s, "--") /\ ~HasOpenComment(s) /\ ~HasCloseComment(s)
    /\ Count(s, ";") <= 1 /\ ~Contains(RStrip(Strip(s), ";"), ";")
    /\ \A pat \in injection_patterns : ~Search(s, pat)
    /\ Count(s, "(") = Count(s, ")")
    /\ \A i \in 1..(Len(s) - 1) : ~(s[i] = "(" /\ s[i + 1] = ")")
    /\ Count(s, "'") % 2 = 0

\* C24 (as stated): validate_sql accepts every single read-only SELECT
\* statement, joins and UNION SELECT included, that has no comment marker,
\* no interior semicolon, no denylisted whole word and no injection shape.
C24_ReadOnlySelectAccepted ==
    (/\ v_sql # Pending
     /\ Upper(FirstPiece(sql)) = "SELECT"
     /\ Unsuspicious(sql)
     /\ ~HasDenylistedWord(sql)) => v_sql.is_valid

\* C25 (as stated): validate_sql accepts a query whose leading keyword is
\* WITH, a common table expression followed by a SELECT, with or without
\* leading whitespace, when no other rule is violated.
C25_LeadingWithAccepted ==
    (/\ v_sql # Pending
     /\ FirstPiece(sql) = "WITH"
     /\ \E i \in 1..Len(sql) : sql[i] = "SELECT"
     /\ Unsuspicious(sql)
     /\ ~HasDenylistedWord(sql)) => v_sql.is_valid

\* the tautology OR '1'='1' stands somewhere in the text
HasTautology(s) ==
    Search(s, <<"OR", "\\s+", "'", "1", "'", "\\s*", "=", "\\s*", "'", "1", "'">>)

\* C26 (as stated): validate_sql rejects every query that contains the
\* tautology OR '1'='1', whatever stands before the OR.
C26_TautologyRejected ==
    (v_sql # Pending /\ HasTautology(sql)) => ~v_sql.is_valid

\* C27: a single statement without comment markers and injection shapes that
\* holds denylisted keywords is rejected with the keyword reason, and the
\* reason names every denylisted keyword of the text.
C27_ReasonNamesEveryKeyword ==
    (v_sql # Pending /\ Unsuspicious(sql) /\ HasDenylistedWord(sql)) =>
        /\ ~v_sql.is_valid
        /\ v_sql.reason = "Dangerous SQL keywords detected"
        /\ \A i \in 1..Len(sql) :
              Upper(sql[i]) \in DANGEROUS_KEYWORDS => Upper(sql[i]) \in v_sql.found

\* a DELETE with a lower-case drop further on has been refused, both named
C27_Witness ==
    /\ Cardinality({i \in 1..Len(sql) : Upper(sql[i]) \in DANGEROUS_KEYWORDS}) = 2
    /\ Unsuspicious(sql)
    /\ v_sql # Pending
    /\ v_sql.found = {"DELETE", "DROP"}

\* C28 (as stated): a SELECT with no denylisted whole word is not rejected
\* for a denylisted keyword by any check in front of execution, also when an
\* identifier such as created_at holds a keyword as a substring.
C28_KeywordsMatchWholeWords ==
    (Upper(FirstPiece(sql)) = "SELECT" /\ ~HasDenylistedWord(sql)) =>
        /\ v_sql.reason # "Dangerous SQL keywords detected"
        /\ v_query.found \cap QueryDenylist = {}
        /\ v_safe.reason # "Dangerous keyword detected"

\* the reasons validate_sql gives for more than one statement
MultipleStatementReasons ==
    {"Multiple statements detected (potential injection)",
     "Multiple SQL statements not allowed"}

HasCommentMarker(s) == Contains(s, "--") \/ HasOpenComment(s) \/ HasCloseComment(s)

\* C31 (as stated): a text with a second statement is reported as a
\* multiple-statement violation, also when it holds a comment marker or a
\* denylisted keyword.
C31_SecondStatementReportedFirst ==
    (v_sql # Pending /\ HasSecondStatement(sql)) =>
        v_sql.reason \in MultipleStatementReasons

\* C31 (amended): comment markers are tested before statements are counted
\* and both before the denylist: a text with a second statement is reported
\* for its comment marker when it has one, and otherwise for its interior
\* semicolon, also when it holds a denylisted keyword.
C31_CommentThenStatementThenKeyword ==
    (v_sql # Pending /\ HasSecondStatement(sql)) =>
        /\ ~v_sql.is_valid
        /\ v_sql.reason =
              IF HasCommentMarker(sql)
              THEN "SQL comments detected (potential injection)"
              ELSE "Multiple statements detected (potential injection)"

\* the text of test_sql_injection_comment, with a second statement, a
\* comment marker and a denylisted keyword, has been refused for the comment
C31_Witness ==
    /\ HasSecondStatement(sql) /\ HasCommentMarker(sql) /\ HasDenylistedWord(sql)
    /\ v_sql # Pending
    /\ v_sql.reason = "SQL comments detected (potential injection)"

----------------------------------------------------------------------------
(* Properties of the workflow and of the chat entry point, checked under   *)
(* Spec                                                                    *)

\* the latest validate call before position i accepted exactly query q
LastValidated(ev, i, q) ==
    \E j \in 1..(i - 1) :
        /\ ev[j].op = "validate" /\ ev[j].ok /\ ev[j].q = q
        /\ \A k \in (j + 1)..(i - 1) : ev[k].op # "validate"

\* C1 (as stated): every query handed to the database is the query that
\* most recently passed validation in that run of the SQL pipeline.
C1_ExecutedQueryPassedValidation ==
    \A i \in 1..Len(events) :
        events[i].op = "execute" => LastValidated(events, i, events[i].q)

\* the request has left the SQL pipeline in the failed state
PipelineFailed == st.agent_used = "sql_failed"

\* C6 (as stated): with a Language Service that answers every generate and
\* every repair call with an invalid query, a request with a database ends
\* failed after exactly retry budget + 1 candidate-producing calls and
\* executes nothing.
C6_StubFailsAfterBudgetPlusOne ==
    (PipelineFailed /\ st.database_id /\ stub_invalid)
        => (candidates = max_retries + 1 /\ executions = 0)

\* C7 (as stated): when the generated query passes validation and its
\* execution fails while retry budget remains, a repair call follows.
C7_ExecutionFailureIsRepaired ==
    \A i \in 1..Len(events) :
        ( /\ events[i].op = "execute" /\ ~events[i].ok
          /\ events[i].rc < max_retries
          /\ \A k \in 1..(i - 1) : events[k].op # "fix" )
        => \E j \in (i + 1)..Len(events) : events[j].op = "fix"

\* call i of the run failed on a query: a refused validation or execution
QueryFailedAt(ev, i) == ev[i].op \in {"validate", "execute"} /\ ~ev[i].ok

\* C32 (as stated): every repair request carries the query that just failed
\* in the current run of the sql stage, never a query of an earlier run and
\* never no query.
C32_RepairCarriesFailedQuery ==
    \A i \in 1..Len(events) :
        events[i].op = "fix" =>
            \E j \in 1..(i - 1) :
                /\ QueryFailedAt(events, j)
                /\ events[j].q = events[i].arg
                /\ \A k \in (j + 1)..(i - 1) : ~QueryFailedAt(events, k)

\* the error in the state is one reported by the sql stage
SqlStageError == st.error.kind \in {"validation", "Failed to execute SQL query"}

\* C33 (as stated): when the pipeline ends failed, the reported error is the
\* error of the last failure of the run: when the last failed call is the
\* validation or the execution of a query, the error is about that query.
C33_LastErrorReported ==
    (PipelineFailed /\ SqlStageError) =>
        \A j \in 1..Len(events) :
            ( /\ QueryFailedAt(events, j)
              /\ \A k \in (j + 1)..Len(events) : events[k].ok )
            => st.error.about = events[j].q

GraphNodes == {"classify", "sql", "dashboard", "supervisor_respond", "aggregate"}

C39_NoDatabaseNoSql ==
    /\ (chat.req # NoRequest /\ ~chat.req.has_db) =>
          /\ ~chat.sql_agent
          /\ ( /\ chat.req.action \in {"sql", "dashboard"}
               /\ chat.outcome = "returned" /\ chat.req.c_ok )
             => ( /\ chat.success /\ chat.mode = "general" /\ chat.error = "None"
                  /\ chat.data = "empty" /\ ~chat.dashboard )
    /\ (node # "idle" /\ ~st.database_id) =>
          /\ events = <<>> /\ candidates = 0 /\ executions = 0
          /\ st.sql_query = NoQuery /\ st.query_results = NoRows
          /\ sql_runs > 0 =>
                ( /\ sql_runs = 1 /\ st.error # NoError
                  /\ node \in GraphNodes \cup {"END"}
                      => st.error.kind \in {"No database connection specified",
                                            "supervisor"} )

\* a dashboard decision for a chat without a connection was answered with
\* the connect-a-database message
C39_Witness ==
    /\ chat.req # NoRequest /\ ~chat.req.has_db
    /\ chat.req.action = "dashboard"
    /\ chat.outcome = "returned" /\ chat.success /\ chat.data = "empty"

\* the sql stage of the workflow ran for a state without database_id
C39_WorkflowCase ==
    /\ node = "END" /\ ~st.database_id /\ sql_runs = 1
    /\ st.error.kind = "No database connection specified"

\* one step of the graph on the workflow state (not the hand-over of
\* run_agent_workflow to its caller, not a stage that never returns)
GraphStep == node \in GraphNodes /\ node' \in GraphNodes \cup {"END"}

\* the count of retries in every state of a run
RetryCountBounded ==
    /\ node = "start" => st.retry_count = 0
    /\ st.retry_count >= 0
    /\ st.retry_count <= Max(1, max_retries)
    /\ (node = "sql" /\ sql_runs > 0) => st.retry_count < max_retries

\* the count of retries across one step of the graph
RetryCountStep ==
    GraphStep =>
        st'.retry_count =
            IF node = "sql" /\ st'.agent_used # "sql"
            THEN st.retry_count + 1
            ELSE st.retry_count

\* C37: retry_count starts at 0, never decreases, goes up by exactly 1 in a
\* run of the sql stage that returns an error and stays as it is in every
\* other stage, never exceeds max(1, AGENT_MAX_RETRIES), and the sql stage
\* is entered again only while retry_count < AGENT_MAX_RETRIES.
C37_RetryCountDiscipline == [](RetryCountBounded) /\ [][RetryCountStep]_vars

\* the sql stage failed as often as the budget allows, the count went from
\* 0 to the budget and the request left the pipeline failed
C37_Witness ==
    /\ max_retries = MaxBudget
    /\ sql_runs = MaxBudget
    /\ st.retry_count = MaxBudget
    /\ PipelineFailed
    /\ node \in {"aggregate", "supervisor_respond"}

\* C8: a run started at classify cannot stop before END and executes a
\* bounded number of stages: the sql stage at most max(1, AGENT_MAX_RETRIES)
\* times, every other stage at most once, and exactly one of
\* supervisor_respond / aggregate before END.
C8_WorkflowReachesEnd ==
    /\ sql_runs <= Max(1, max_retries)
    /\ stages <= sql_runs + 3
    /\ terminals <= 1
    /\ node \in {"END", "returned"} => terminals = 1
    /\ node \in GraphNodes => ENABLED FlowNext
    /\ node \in GraphNodes \cup {"start", "END", "returned", "idle", "stalled"}

\* a request went round the retry edge as often as the budget allows and
\* reached END through aggregate
C8_Witness ==
    /\ node = "END"
    /\ max_retries = MaxBudget
    /\ sql_runs = MaxBudget
    /\ terminals = 1
    /\ Truthy(st.sql_query)

\* C9 (as stated): no failure of a collaborator makes process_chat_query or
\* run_agent_workflow raise, and run_agent_workflow returns a state with a
\* supervisor_response.
C9_NoExceptionPropagates ==
    /\ ~(chat.outcome = "raised" /\ chat.error = "persistence")
    /\ node = "returned" => st.supervisor_response # "None"

\* C10: a request that ends in failure of the SQL pipeline carries an error
\* and no rows, in the workflow state and in the chat response alike.
C10_FailureCarriesNoRows ==
    /\ PipelineFailed => (st.error # NoError /\ st.query_results = NoRows)
    /\ (chat.outcome = "returned" /\ ~chat.success)
          => (chat.error # "None" /\ chat.data \in {"absent", "empty"})

\* the pipeline failed after a query was executed and refused by the database
C10_Witness ==
    /\ PipelineFailed
    /\ node = "returned"
    /\ \E i \in 1..Len(events) : events[i].op = "execute" /\ ~events[i].ok
    /\ st.error # NoError
    /\ st.query_results = NoRows

\* the chat request was accepted, its SQL stage succeeded and the
\* visualization step failed, persistence working
DashboardFailedRequest ==
    /\ chat.outcome \in {"returned", "raised"}
    /\ chat.req.action = "dashboard"
    /\ chat.req.lookup = "ok" /\ chat.req.has_db /\ ~chat.req.mismatch
    /\ chat.req.c_user /\ chat.req.c_ok
    /\ chat.req.agent = "ok"
    /\ chat.req.dash \in {"failed", "raise"}

\* C11: when the SQL stage succeeded, a failed visualization step (error
\* result, exception or timeout) gives a successful response with the SQL
\* payload and no dashboard; the workflow state keeps query and rows.
C11_DashboardFailureDegrades ==
    /\ DashboardFailedRequest
          => ( /\ chat.outcome = "returned" /\ chat.success
               /\ chat.mode = "sql" /\ chat.data = "rows" /\ ~chat.dashboard )
    /\ (st.agent_used = "dashboard_failed" /\ st.intent = "sql_and_dashboard")
          => ( /\ st.sql_query # NoQuery
               /\ st.query_results = RowsOf(st.sql_query)
               /\ st.dashboard_html = "None" )

\* the visualization step raised after a successful SQL stage and the
\* response still carries the rows
C11_Witness ==
    /\ DashboardFailedRequest
    /\ chat.req.dash = "raise"
    /\ chat.success
    /\ chat.data = "rows"

\* C12 (as stated): a sql stage whose Language Service or database call
\* never returns is aborted: the request can always take a further step
\* towards the failed state.
C12_StalledCallIsAborted ==
    node = "stalled" => ENABLED FlowNext

----------------------------------------------------------------------------
(* Properties of the schema caches, checked under SpecSchema *)

LookupDone == schema.last.fn # "None"

C14_ExpiredSnapshotNotServed ==
    (LookupDone /\ schema.last.outcome = "hit")
        => schema.last.now - schema.last.result.at < ttl_minutes

\* C15: a lookup or forced refresh whose introspection fails leaves both
\* caches as they were before the call.
C15_FailedIntrospectionKeepsCache ==
    (LookupDone /\ schema.last.outcome \in {"raised", "error"})
        => <<schema.redis, schema.tools>> = schema.last.before

\* a forced refresh failed while a snapshot was cached, and the snapshot is
\* still there
C15_Witness ==
    /\ schema.last.outcome = "error"
    /\ schema.last.force
    /\ schema.last.had.present
    /\ schema.tools = schema.last.had

----------------------------------------------------------------------------
(* Properties of the credential vault, checked under SpecVault *)

\* C19: decrypt_password(encrypt_password(p)) returns p exactly, for every
\* password p and whatever initialisation vector the encryption draws.
C19_PasswordRoundTrip ==
    /\ vault.stage = "decrypted" => vault.decrypted = vault.password
    /\ \A iv \in IVs :
          decrypt_password(encrypt_password(vault.password, iv)) = vault.password

\* a password with a two-byte character and a URL delimiter came back
C19_Witness ==
    /\ vault.stage = "decrypted"
    /\ \E i \in 1..Len(vault.password) : vault.password[i] = "é"
    /\ \E i \in 1..Len(vault.password) : vault.password[i] = "@"
    /\ vault.decrypted = vault.password

----------------------------------------------------------------------------
(* Properties of the connection manager, checked under SpecPool *)

EnginesFor(r) == {i \in 1..Len(pool.engines) : pool.engines[i] = r}

HoldsEngine(k) ==
    pool.threads[k].pc \in {"returned", "probe"} /\ pool.threads[k].got # NoEngine

\* C16 (as stated): however the callers of get_engine interleave, one engine
\* is built per key, every caller of a key receives that engine, and every
\* built engine is in the pool map or about to be stored in it.
C16_OneEnginePerKey ==
    /\ \A r \in BOOLEAN : Cardinality(EnginesFor(r)) <= 1
    /\ \A j \in Threads, k \in Threads :
          (HoldsEngine(j) /\ HoldsEngine(k)
             /\ pool.threads[j].read_only = pool.threads[k].read_only)
              => pool.threads[j].got = pool.threads[k].got
    /\ \A i \in 1..Len(pool.engines) :
          \/ pool.connections[pool.engines[i]] = i
          \/ \E k \in Threads :
                pool.threads[k].pc = "store" /\ pool.threads[k].engine = i

\* C17 (as stated): a get_engine or get_session call whose connection to the
\* target failed while the engine was built ends raising an error with the
\* driver message and leaves no entry for its key in the pool map.
C17_BuildFailureRaises ==
    \A k \in Threads :
        LET th == pool.threads[k]
        IN  (th.call \in {"get_engine", "get_session"} /\ th.connect_failed
               /\ th.pc # "store")
                => ( /\ th.pc = "raised"
                     /\ th.error # NoText
                     /\ pool.connections[th.read_only] = NoEngine )

\* C18 (as stated): a finished test_connection, with no other caller of the
\* connection manager about, has left the pool map as it found it and has
\* not used an engine of the pool map.
C18_TestConnectionLeavesPool ==
    \A k \in Threads :
        LET th == pool.threads[k]
        IN  (th.call = "test_connection" /\ th.pc = "returned"
               /\ \A j \in Threads \ {k} : pool.threads[j].pc = "idle")
                => ( /\ pool.connections = th.before
                     /\ th.got = NoEngine \/ \A r \in BOOLEAN : th.before[r] # th.got )

Mentions(text, from) == \E i \in 1..Len(text.about) : text.about[i].from = from

\* C20 (as stated): no piece of the decrypted password is in a printed line
\* or in the error text a call hands back.
C20_PlaintextConfined ==
    \A text \in pool.log \cup {pool.threads[k].error : k \in Threads} :
        ~Mentions(text, "password")

----------------------------------------------------------------------------
(* Properties of the execution tools, checked under SpecExec *)

\* C29 (as stated): whichever tool runs a query and however large its result
\* set is, the rows returned never exceed the configured row cap.
C29_RowsNeverExceedCap == exec.rows <= exec.cap

----------------------------------------------------------------------------
(* Properties of the intent router, checked under SpecRouter *)

\* C21 (as stated): a request whose normalized query and has-database flag
\* equal those of an earlier request of the process gets the earlier
\* decision from the cache, without a Language Service call.
C21_RepeatedQueryServedFromCache ==
    \A i \in 1..Len(router.calls) : \A j \in (i + 1)..Len(router.calls) :
        router.calls[i].key = router.calls[j].key =>
            /\ ~router.calls[j].ls_call
            /\ router.calls[j].decision = router.calls[i].decision

\* C22: when the Language Service call of a routing fails, route_query
\* returns the direct-answer decision and raises nothing.
C22_RoutingFailureAnswersDirectly ==
    \A i \in 1..Len(router.calls) :
        router.calls[i].ls_failed => router.calls[i].decision.action = "respond"

\* a routing whose Language Service call failed came back as a fallback
C22_Witness ==
    \E i \in 1..Len(router.calls) :
        /\ router.calls[i].ls_failed
        /\ router.calls[i].decision =
              [action |-> "respond", method |-> "fallback", fields |-> DecisionFields]

\* the text of the answer holds no JSON object that json.loads accepts
NoJsonObject(answer) == ~answer.fails /\ answer.json \in {"none", "malformed"}

\* C34: when the answer holds no parseable JSON object the action comes
\* from the words of the text, sql if it mentions sql, else dashboard if it
\* mentions dashboard, else respond; nothing is raised.
C34_ActionFromKeywords ==
    \A i \in 1..Len(router.calls) :
        (router.calls[i].ls_call /\ NoJsonObject(router.calls[i].answer)) =>
            router.calls[i].decision.action =
                IF "sql" \in router.calls[i].answer.mentions THEN "sql"
                ELSE IF "dashboard" \in router.calls[i].answer.mentions THEN "dashboard"
                ELSE "respond"

\* braces that are not JSON in a text naming both words were routed to sql
C34_Witness ==
    \E i \in 1..Len(router.calls) :
        /\ router.calls[i].answer.json = "malformed"
        /\ router.calls[i].answer.mentions = {"sql", "dashboard"}
        /\ router.calls[i].decision.action = "sql"

\* C36 (as stated): every decision route_query returns has an action that
\* is one of respond, sql, dashboard and carries reasoning, confidence and
\* method; a JSON object with another or no action never reaches the caller.
C36_DecisionWellFormed ==
    \A i \in 1..Len(router.calls) :
        /\ router.calls[i].decision.action \in {"respond", "sql", "dashboard"}
        /\ router.calls[i].decision.fields = DecisionFields
        /\ router.calls[i].decision.method \in {"ai", "fallback"}

----------------------------------------------------------------------------
(* Properties of concurrent requests, checked under SpecDash *)

\* C23: whatever the interleaving of the requests at their awaits, the rows
\* an agent holds for a request in flight are that request's rows, and the
\* rows fed to analyze_data_structure for a request are its own.
C23_RequestsShareNoData ==
    \A r \in InFlight :
        /\ dash.reqs[r].fed \subseteq {DataOf(r)}
        /\ dash.reqs[r].pc = "await" =>
               dash.agents[dash.reqs[r].agent]._current_data = DataOf(r)

\* two requests are in flight at once, the second began after the first, and
\* the first has since fed its own rows to analyze_data_structure
C23_Witness ==
    \E r1, r2 \in InFlight :
        /\ r1 # r2
        /\ dash.reqs[r1].pc = "await" /\ dash.reqs[r2].pc = "await"
        /\ dash.reqs[r1].agent < dash.reqs[r2].agent
        /\ dash.reqs[r1].iteration > 1
        /\ dash.reqs[r1].fed = {DataOf(r1)}

----------------------------------------------------------------------------
(* Specifications *)

\* the validators applied to one text
SpecValidate == InitValidate /\ [][ValidateNext]_vars

\* one request: through the agent workflow, or through the chat entry point
InitSchema ==
    /\ ValidateIdle
    /\ FlowIdle
    /\ chat = ChatOff
    /\ schema = SchemaIdle
    /\ vault = VaultOff
    /\ pool = PoolOff
    /\ exec = ExecOff
    /\ router = RouterOff
    /\ dash = DashOff
    /\ boot = BootOff
    /\ reg = RegOff

\* the schema caches of one target under lookups and the passing of time
SpecSchema == InitSchema /\ [][SchemaNext]_vars

InitVault ==
    /\ ValidateIdle
    /\ FlowIdle
    /\ chat = ChatOff
    /\ schema = SchemaIdle
    /\ \E password \in Passwords : vault = [VaultOff EXCEPT !.stage = "entered", !.password = password]
    /\ pool = PoolOff
    /\ exec = ExecOff
    /\ router = RouterOff
    /\ dash = DashOff
    /\ boot = BootOff
    /\ reg = RegOff

\* one password stored by create_database_connection and read back by
\* build_connection_url
SpecVault == InitVault /\ [][VaultNext]_vars

InitPool ==
    /\ ValidateIdle
    /\ FlowIdle
    /\ chat = ChatOff
    /\ schema = SchemaIdle
    /\ vault = VaultOff
    /\ \E password \in PoolPasswords, db_type \in DbTypes :
          pool = [PoolOff EXCEPT
                    !.db_type = db_type,
                    !.encrypted_password =
                        encrypt_password(password, CHOOSE iv \in IVs : TRUE)]
    /\ exec = ExecOff
    /\ router = RouterOff
    /\ dash = DashOff
    /\ boot = BootOff
    /\ reg = RegOff

\* threads calling the connection manager for one stored target
SpecPool == InitPool /\ [][PoolNext]_vars

InitExec ==
    /\ ValidateIdle
    /\ FlowIdle
    /\ chat = ChatOff
    /\ schema = SchemaIdle
    /\ vault = VaultOff
    /\ pool = PoolOff
    /\ \E cap \in RowCaps, size \in ResultSizes :
          exec = [ExecOff EXCEPT !.cap = cap, !.size = size]
    /\ router = RouterOff
    /\ dash = DashOff
    /\ boot = BootOff
    /\ reg = RegOff

\* one query run by one of the three execution tools
SpecExec == InitExec /\ [][ExecNext]_vars

InitRouter ==
    /\ ValidateIdle
    /\ FlowIdle
    /\ chat = ChatOff
    /\ schema = SchemaIdle
    /\ vault = VaultOff
    /\ pool = PoolOff
    /\ exec = ExecOff
    /\ router = RouterOff
    /\ dash = DashOff
    /\ boot = BootOff
    /\ reg = RegOff

\* the chat requests of one process, routed one after the other
SpecRouter == InitRouter /\ [][RouterNext]_vars

InitDash ==
    /\ ValidateIdle
    /\ FlowIdle
    /\ chat = ChatOff
    /\ schema = SchemaIdle
    /\ vault = VaultOff
    /\ pool = PoolOff
    /\ exec = ExecOff
    /\ router = RouterOff
    /\ dash = DashOff
    /\ boot = BootOff
    /\ reg = RegOff

\* chat requests visualizing their results at the same time
SpecDash == InitDash /\ [][DashNext]_vars

Init ==
    /\ ValidateIdle
    /\ schema = SchemaIdle
    /\ vault = VaultOff
    /\ pool = PoolOff
    /\ exec = ExecOff
    /\ router = RouterOff
    /\ dash = DashOff
    /\ boot = BootOff
    /\ reg = RegOff
    /\ \/ InitFlow /\ chat = ChatOff
       \/ FlowIdle /\ chat = ChatWaiting

Next ==
    \/ FlowNext
    \/ ChatQuery

Spec == Init /\ [][Next]_vars

InitBoot ==
    /\ ValidateIdle
    /\ FlowIdle
    /\ chat = ChatOff
    /\ schema = SchemaIdle
    /\ vault = VaultOff
    /\ pool = PoolOff
    /\ exec = ExecOff
    /\ router = RouterOff
    /\ dash = DashOff
    /\ boot = [BootOff EXCEPT !.pc = "start"]
    /\ reg = RegOff

\* application startup: the event loop runs lifespan, and the timer of
\* wait_for fires; nothing makes the warm task go on
SpecBoot ==
    InitBoot /\ [][BootNext]_vars /\ WF_vars(StartLifespan) /\ WF_vars(AnnounceReady)

InitReg ==
    /\ ValidateIdle
    /\ FlowIdle
    /\ chat = ChatOff
    /\ schema = SchemaIdle
    /\ vault = VaultOff
    /\ pool = PoolOff
    /\ exec = ExecOff
    /\ router = RouterOff
    /\ dash = DashOff
    /\ boot = BootOff
    /\ reg = [RegOff EXCEPT !.present = TRUE]

\* one registered target, used, updated and deleted through the API
SpecReg == InitReg /\ [][RegNext]_vars

----------------------------------------------------------------------------
(* Properties of application startup, checked under SpecBoot *)

\* the warm pass went through its loop
WarmLoopDone == boot.warm \in {"close", "end"}

\* C35: startup reaches the ready state whatever the warm pass does and
\* whether or not it has finished; a warm pass that came through its loop
\* has tried every target it found, whichever of them failed.
C35_StartupReachesReady ==
    /\ <>(boot.pc = "ready")
    /\ [](boot.pc \in {"start", "waiting", "ready"})
    /\ [](WarmLoopDone => Len(boot.loads) = boot.found)

\* the application is ready while the warm pass, whose first target raised,
\* is still at work on the second
C35_Witness ==
    /\ boot.pc = "ready"
    /\ boot.task = "running"
    /\ boot.found = 2
    /\ boot.loads = <<"raised">>

----------------------------------------------------------------------------
(* Properties of connection profiles, checked under SpecReg *)

\* C40 (as stated): get_engine, get_session and the schema lookup hand back
\* nothing built from a profile older than the row they are called with.
C40_NothingStaleReused ==
    reg.last.fn # "None" => reg.last.got.rev = reg.last.rev

====
